---------------------------- MODULE Spec2Model ----------------------------
(***************************************************************************)
(* A model of the project-autolisting single page application: the        *)
(* session handling (axios interceptors, AuthContext, Login, PrivateRoute),*)
(* the ScrapeButton job timers and their localStorage entries, and the    *)
(* data views (ProductList, VendorHistory, GapAnalysis, HistoryPage).      *)
(*                                                                         *)
(* JavaScript null / an absent localStorage entry is the empty sequence    *)
(* Null, a present value x is the one-element sequence Some(x).            *)
(***************************************************************************)
EXTENDS Integers, Sequences, FiniteSets, TLC

Null == <<>>
Some(x) == <<x>>

VARIABLES
  \* browser: localStorage entries 'token' and 'user', location, pending page load
  lsToken, lsUser, path, reloadPending,
  \* AuthProvider state
  user, loading, authError, booted,
  \* Login component state
  credentials, isLoading,
  \* the pending authAPI.login call and its outcome
  loginState, loginCreds,
  \* one backend call through the axios instance and what its caller saw
  apiState, apiOutcome,
  \* ScrapePage: the selected vendor; the ScrapeButton under it and its type
  selectedVendor, btnType,
  \* ScrapeButton state
  isScrapingActive, scrapeStatus, sbError, progress, lastScrapeDate,
  \* localStorage entries '<type>_<vendor>_status' and '<type>_<vendor>_lastScrape'
  lsStatus, lsLastScrape,
  \* the start requests of the button, their timers and onComplete calls
  jobs, sbClicks, sbRequests,
  \* the clock read by new Date(), in ms
  now,
  \* the page component that is mounted, the backend calls in flight, and the
  \* text of the last alert() dialog
  view, calls, alertMsg,
  \* whether the last step was a click on a "List ... on Shopify" button
  bulkClicked,
  \* the backend response whose continuation ran in the last step, if any
  response,
  \* UserDashboard state (the parent of ProductList)
  products, udLoading, searchLoading, filters, pagination,
  \* state of the mounted list component (ProductList, GapAnalysis, VendorHistory)
  selectedProducts, selectMode, bulkListingLoading,
  \* GapAnalysis state
  gaVendor, deltaData, gaFilteredProducts, gaLoading, gaFilters,
  \* VendorHistory state and its pending debounce timer
  vhVendor, activeTab, vhProducts, vhFilteredProducts, vhLoading, vhError,
  vhFilters, vhPagination, searchTimeout,
  \* HistoryPage state
  history, hpLoading, hpFilters, hpPagination,
  \* one ProductCard / ProductRow: which of the two, its product prop, its state, its pending
  \* status reset timers, and the button of it clicked in the last step
  cardComponent, cardProduct, listingLoading, listingStatus, showConfirmDialog,
  statusResets, cardEvent,
  \* ListingHistoryPage state
  lhHistory, lhStats, lhLoading, lhFilters, lhPagination,
  \* what the last render of ProductList computed for its pagination: the
  \* numbers on the page buttons in order, startIndex and endIndex
  bar

browserVars == <<lsToken, lsUser, path, reloadPending>>
authVars == <<user, loading, authError, booted, credentials, isLoading,
              loginState, loginCreds, apiState, apiOutcome>>
scrapeVars == <<selectedVendor, btnType, isScrapingActive, scrapeStatus, sbError,
                progress, lastScrapeDate, lsStatus, lsLastScrape, jobs, sbClicks,
                sbRequests, now>>
dashboardVars == <<products, udLoading, searchLoading, filters, pagination>>
listVars == <<selectedProducts, selectMode, bulkListingLoading>>
gapVars == <<gaVendor, deltaData, gaFilteredProducts, gaLoading, gaFilters>>
vendorHistoryVars == <<vhVendor, activeTab, vhProducts, vhFilteredProducts, vhLoading,
                       vhError, vhFilters, vhPagination, searchTimeout>>
historyVars == <<history, hpLoading, hpFilters, hpPagination>>
cardVars == <<cardComponent, cardProduct, listingLoading, listingStatus, showConfirmDialog,
              statusResets, cardEvent>>
listingVars == <<lhHistory, lhStats, lhLoading, lhFilters, lhPagination>>
viewVars == <<view, calls, alertMsg, bulkClicked, response, dashboardVars, listVars, gapVars,
              vendorHistoryVars, historyVars, cardVars, listingVars, bar>>
vars == <<browserVars, authVars, scrapeVars, viewVars>>
\* what the session actions and the ScrapeButton actions leave alone
nonAuthVars == <<scrapeVars, viewVars>>
nonScrapeVars == <<authVars, viewVars>>
nonViewVars == <<authVars, scrapeVars, cardVars, bar>>
\* what the actions of one page component leave alone
nonProductsVars == <<nonViewVars, gapVars, vendorHistoryVars, historyVars, listingVars>>
nonGapVars == <<nonViewVars, dashboardVars, vendorHistoryVars, historyVars, listingVars>>
nonVendorHistoryVars == <<nonViewVars, dashboardVars, gapVars, historyVars, listingVars>>
nonHistoryVars == <<nonViewVars, dashboardVars, listVars, gapVars, vendorHistoryVars,
                    listingVars>>
nonListingVars == <<nonViewVars, dashboardVars, listVars, gapVars, vendorHistoryVars,
                    historyVars>>

-----------------------------------------------------------------------------
(* services/api.js: authAPI and the response interceptor                   *)

AdminUser == [username |-> "admin", role |-> "admin", name |-> "Admin User"]
RegularUser == [username |-> "user", role |-> "user", name |-> "Regular User"]

\* JSON.stringify(user) / JSON.parse(text) of the stored user object
JSONstringify(u) == <<"{", u.username, u.role, u.name, "}">>
JSONparse(s) == [username |-> s[2], role |-> s[3], name |-> s[4]]

\* a login that trusts the role chosen in the form
authLoginFormRole(c) ==
  IF (c.username = "admin" /\ c.password = "admin123")
       \/ (c.username = "user" /\ c.password = "user123")
    THEN [kind |-> "resolved",
          user |-> Some([username |-> c.username, role |-> c.role, name |-> c.username]),
          token |-> Some("fake-token"), message |-> Null]
  ELSE [kind |-> "rejected", user |-> Null, token |-> Null,
        message |-> Some("Invalid credentials")]

\* authAPI.login(credentials): the outcome of the simulated login.
\* kind "resolved" carries the user and the token that are stored.
authLogin(c) ==
  IF c.username = "admin" /\ c.password = "admin123"
    THEN [kind |-> "resolved", user |-> Some(AdminUser), token |-> Some("fake-admin-token"),
          message |-> Null]
  ELSE IF c.username = "user" /\ c.password = "user123"
    THEN [kind |-> "resolved", user |-> Some(RegularUser), token |-> Some("fake-user-token"),
          message |-> Null]
  ELSE [kind |-> "rejected", user |-> Null, token |-> Null,
        message |-> Some("Invalid credentials")]

\* authAPI.getCurrentUser()
getCurrentUser == IF lsUser = Null THEN Null ELSE Some(JSONparse(lsUser[1]))

\* HTTP outcomes of a backend call: 0 stands for "no response" (network error)
Statuses == {0, 200, 401, 403, 500}
IsError(status) == status # 200

\* an interceptor that treats every authorization failure as a lost session
InterceptorClearsForbidden(status) == status \in {401, 403}

\* the condition of the response interceptor's error handler
InterceptorClears(status) == status = 401

\* api.interceptors.response error handler: on 401 both entries are removed and
\* the location is set to /login (which loads the page anew); the error is
\* rejected to the caller in every case.
ResponseError(status) ==
  IF InterceptorClears(status)
    THEN /\ lsToken' = Null
         /\ lsUser' = Null
         /\ path' = "/login"
         /\ reloadPending' = TRUE
    ELSE UNCHANGED <<lsToken, lsUser, path, reloadPending>>

-----------------------------------------------------------------------------
(* components/Auth/PrivateRoute.jsx and the routes of App                  *)

isAuthenticated == user # Null
userRole == IF user = Null THEN "undefined" ELSE user[1].role

\* a PrivateRoute without the role check
PrivateRouteNoRoles(roles, children) ==
  IF loading THEN "Loading"
  ELSE IF ~isAuthenticated THEN "Navigate:/login"
  ELSE children

\* PrivateRoute({children, roles}): what the component returns
PrivateRoute(roles, children) ==
  IF loading THEN "Loading"
  ELSE IF ~isAuthenticated THEN "Navigate:/login"
  ELSE IF roles # {} /\ userRole \notin roles
    THEN IF userRole = "admin" THEN "Navigate:/admin" ELSE "Navigate:/dashboard"
  ELSE children

Paths == {"/", "/login", "/admin", "/dashboard"}

\* App: the element rendered for the current location
Rendered ==
  CASE path = "/login" -> "LoginPage"
    [] path = "/admin" -> PrivateRoute({"admin"}, "AdminDashboard")
    [] path = "/dashboard" -> PrivateRoute({"user", "admin"}, "UserDashboard")
    [] OTHER -> "Navigate:/dashboard"

NavigateTarget ==
  CASE Rendered = "Navigate:/login" -> "/login"
    [] Rendered = "Navigate:/admin" -> "/admin"
    [] Rendered = "Navigate:/dashboard" -> "/dashboard"
    [] OTHER -> path

-----------------------------------------------------------------------------
(* context/AuthContext.jsx and components/Auth/Login.jsx                   *)

Usernames == {"", "admin", "user"}
Passwords == {"", "admin123", "user123"}
FormRoles == {"user", "admin"}

InitialCredentials == [username |-> "", password |-> "", role |-> "user"]

\* React state of a freshly loaded page
FreshAuth ==
  /\ user' = Null
  /\ loading' = TRUE
  /\ authError' = Null
  /\ booted' = FALSE
  /\ credentials' = InitialCredentials
  /\ isLoading' = FALSE
  /\ loginState' = "idle"
  /\ loginCreds' = InitialCredentials
  /\ apiState' = "idle"

AuthInit ==
  /\ lsToken = Null
  /\ lsUser = Null
  /\ path = "/"
  /\ reloadPending = FALSE
  /\ user = Null
  /\ loading = TRUE
  /\ authError = Null
  /\ booted = FALSE
  /\ credentials = InitialCredentials
  /\ isLoading = FALSE
  /\ loginState = "idle"
  /\ loginCreds = InitialCredentials
  /\ apiState = "idle"
  /\ apiOutcome = [kind |-> "none", status |-> 200]

\* the page load that follows an assignment to window.location.href, or a
\* location typed into the address bar: every component is built anew
PageLoad ==
  /\ UNCHANGED nonAuthVars
  /\ reloadPending
  /\ reloadPending' = FALSE
  /\ FreshAuth
  /\ UNCHANGED <<lsToken, lsUser, path, apiOutcome>>

AddressBar(p) ==
  /\ UNCHANGED nonAuthVars
  /\ ~reloadPending
  /\ path' = p
  /\ reloadPending' = FALSE
  /\ FreshAuth
  /\ UNCHANGED <<lsToken, lsUser, apiOutcome>>

\* AuthProvider mount effect: initAuth
initAuth ==
  /\ UNCHANGED nonAuthVars
  /\ ~reloadPending
  /\ ~booted
  /\ booted' = TRUE
  /\ user' = IF getCurrentUser # Null THEN getCurrentUser ELSE user
  /\ loading' = FALSE
  /\ UNCHANGED <<authError, credentials, isLoading, loginState, loginCreds,
                 apiState, apiOutcome>>
  /\ UNCHANGED browserVars

\* a <Navigate replace> element rendered by the router or by PrivateRoute
FollowNavigate ==
  /\ UNCHANGED nonAuthVars
  /\ ~reloadPending
  /\ booted
  /\ NavigateTarget # path
  /\ path' = NavigateTarget
  /\ UNCHANGED <<lsToken, lsUser, reloadPending>>
  /\ UNCHANGED authVars

\* Login effect: an authenticated visitor of /login is sent to their dashboard;
\* leaving the page unmounts Login (clearError, local state dropped)
LoginRedirect ==
  /\ UNCHANGED nonAuthVars
  /\ ~reloadPending
  /\ booted
  /\ path = "/login"
  /\ isAuthenticated
  /\ path' = IF userRole = "admin" THEN "/admin" ELSE "/dashboard"
  /\ authError' = Null
  /\ credentials' = InitialCredentials
  /\ isLoading' = FALSE
  /\ UNCHANGED <<lsToken, lsUser, reloadPending, user, loading, booted,
                 loginState, loginCreds, apiState, apiOutcome>>

LoginInteractive ==
  /\ ~reloadPending
  /\ booted
  /\ path = "/login"
  /\ ~isAuthenticated

\* Login.handleChange: one form field changes, a shown error is cleared
handleChange(name, value) ==
  /\ UNCHANGED nonAuthVars
  /\ LoginInteractive
  /\ credentials' = [credentials EXCEPT ![name] = value]
  /\ credentials' # credentials
  /\ authError' = Null
  /\ UNCHANGED <<user, loading, booted, isLoading, loginState, loginCreds,
                 apiState, apiOutcome>>
  /\ UNCHANGED browserVars

\* Login.handleQuickLogin(role)
handleQuickLogin(role) ==
  /\ UNCHANGED nonAuthVars
  /\ LoginInteractive
  /\ credentials' = IF role = "admin"
                      THEN [username |-> "admin", password |-> "admin123", role |-> "admin"]
                      ELSE [username |-> "user", password |-> "user123", role |-> "user"]
  /\ credentials' # credentials
  /\ UNCHANGED <<user, loading, authError, booted, isLoading, loginState,
                 loginCreds, apiState, apiOutcome>>
  /\ UNCHANGED browserVars

\* Login.handleSubmit up to the await in AuthContext.login
handleSubmit ==
  /\ UNCHANGED nonAuthVars
  /\ LoginInteractive
  /\ ~isLoading
  /\ credentials.username # "" /\ credentials.password # ""
  /\ isLoading' = TRUE
  /\ loading' = TRUE
  /\ authError' = Null
  /\ loginState' = "pending"
  /\ loginCreds' = credentials
  /\ UNCHANGED <<user, booted, credentials, apiState, apiOutcome>>
  /\ UNCHANGED browserVars

\* authAPI.login settles; AuthContext.login and Login.handleSubmit continue
loginSettle ==
  /\ UNCHANGED nonAuthVars
  /\ ~reloadPending
  /\ loginState = "pending"
  /\ LET r == authLogin(loginCreds) IN
       /\ loginState' = r.kind
       /\ IF r.kind = "resolved"
            THEN /\ lsToken' = r.token
                 /\ lsUser' = Some(JSONstringify(r.user[1]))
                 /\ user' = r.user
                 /\ authError' = authError
            ELSE /\ authError' = r.message
                 /\ UNCHANGED <<lsToken, lsUser, user>>
  /\ loading' = FALSE
  /\ isLoading' = FALSE
  /\ UNCHANGED <<path, reloadPending, booted, credentials, loginCreds,
                 apiState, apiOutcome>>

\* Login effect: a shown error is cleared after 5 s
errorTimeout ==
  /\ UNCHANGED nonAuthVars
  /\ ~reloadPending
  /\ authError # Null
  /\ authError' = Null
  /\ UNCHANGED <<user, loading, booted, credentials, isLoading, loginState,
                 loginCreds, apiState, apiOutcome>>
  /\ UNCHANGED browserVars

\* AuthContext.logout (Header's Sign Out button)
logout ==
  /\ UNCHANGED nonAuthVars
  /\ ~reloadPending
  /\ Rendered \in {"AdminDashboard", "UserDashboard"}
  /\ lsToken' = Null
  /\ lsUser' = Null
  /\ user' = Null
  /\ authError' = Null
  /\ UNCHANGED <<path, reloadPending, loading, booted, credentials, isLoading,
                 loginState, loginCreds, apiState, apiOutcome>>

\* a Sidebar link: client-side navigation between the dashboards
SidebarLink(p) ==
  /\ UNCHANGED nonAuthVars
  /\ ~reloadPending
  /\ Rendered \in {"AdminDashboard", "UserDashboard"}
  /\ p # path
  /\ path' = p
  /\ UNCHANGED <<lsToken, lsUser, reloadPending>>
  /\ UNCHANGED authVars

\* a dashboard issues a backend call through the axios instance
apiRequest ==
  /\ UNCHANGED nonAuthVars
  /\ ~reloadPending
  /\ Rendered \in {"AdminDashboard", "UserDashboard"}
  /\ apiState # "inflight"
  /\ apiState' = "inflight"
  /\ UNCHANGED <<user, loading, authError, booted, credentials, isLoading,
                 loginState, loginCreds, apiOutcome>>
  /\ UNCHANGED browserVars

\* the call settles with an HTTP status: the response interceptor runs
apiSettle(status) ==
  /\ UNCHANGED nonAuthVars
  /\ ~reloadPending
  /\ apiState = "inflight"
  /\ apiState' = "settled"
  /\ IF IsError(status)
       THEN /\ ResponseError(status)
            /\ apiOutcome' = [kind |-> "rejected", status |-> status]
       ELSE /\ UNCHANGED browserVars
            /\ apiOutcome' = [kind |-> "resolved", status |-> status]
  /\ UNCHANGED <<user, loading, authError, booted, credentials, isLoading,
                 loginState, loginCreds>>

NextAuth ==
  \/ PageLoad
  \/ \E p \in Paths : AddressBar(p)
  \/ initAuth
  \/ FollowNavigate
  \/ LoginRedirect
  \/ \E v \in Usernames : handleChange("username", v)
  \/ \E v \in Passwords : handleChange("password", v)
  \/ \E v \in FormRoles : handleChange("role", v)
  \/ \E r \in FormRoles : handleQuickLogin(r)
  \/ handleSubmit
  \/ loginSettle
  \/ errorTimeout
  \/ logout
  \/ \E p \in {"/admin", "/dashboard"} : SidebarLink(p)
  \/ apiRequest
  \/ \E s \in Statuses : apiSettle(s)

-----------------------------------------------------------------------------
(* components/User/ScrapeButton.jsx under ScrapePage (pages/UserDashboard) *)

\* the vendors offered by the vendor selector that the model follows
Vendors == {"phoenix"}
Types == {"scrape", "shopify"}

\* how many times the button is clicked in a behaviour
MaxStarts == 2
JobIds == 1..MaxStarts

\* setInterval / setTimeout delays of handleStartScraping and completeProcess
ShopifyProgressMs == 10000
ShopifyCompleteMs == 60000
ScrapeProgressMs == 15000
ScrapeCompleteMs == 120000
ResetMs == 3000
\* progressMessages.length
ProgressMessages == 5

ProgressDelay(type) == IF type = "shopify" THEN ShopifyProgressMs ELSE ScrapeProgressMs
\* completion delays exchanged between the two types
CompleteDelaySwapped(type) == IF type = "shopify" THEN ScrapeCompleteMs ELSE ShopifyCompleteMs
CompleteDelay(type) == IF type = "shopify" THEN ShopifyCompleteMs ELSE ScrapeCompleteMs

\* Date.toISOString() and new Date(text)
toISOString(t) == <<"ISO", t>>
parseDate(text) == text[2]

\* a timer that is not pending
Off == -1

NoJob == [phase |-> "none", vendor |-> "", live |-> FALSE, idx |-> 0,
          iv |-> Off, to |-> Off, rs |-> Off, ackAt |-> Off, completes |-> 0]

\* the outcomes of the start request: an HTTP status and, for a 200, the
\* success flag of the response body
StartOutcomes ==
  {[status |-> 200, success |-> TRUE], [status |-> 200, success |-> FALSE],
   [status |-> 401, success |-> FALSE], [status |-> 500, success |-> FALSE],
   [status |-> 0, success |-> FALSE]}

\* handleAPIError(error) for the errors the model produces
handleAPIError(r) ==
  IF r.status = 0 THEN "Network error - please check your connection"
  ELSE IF r.status # 200 THEN "Server error occurred"
  ELSE "Process failed to start"

\* React state of a ScrapeButton that has just been created
FreshButton ==
  /\ isScrapingActive' = FALSE
  /\ scrapeStatus' = Null
  /\ sbError' = ""
  /\ progress' = ""
  /\ lastScrapeDate' = Null

\* the mount / [vendor] effect: checkExistingStatus for vendor v, applied to
\* the button state b (a record of the five state fields)
checkExistingStatus(v, b) ==
  LET b1 == IF lsLastScrape[v] # Null
              THEN [b EXCEPT !.lastScrapeDate = Some(parseDate(lsLastScrape[v][1]))]
              ELSE b
  IN IF lsStatus[v] = Some("running")
       THEN [b1 EXCEPT !.isScrapingActive = TRUE,
                       !.scrapeStatus = Some("running"),
                       !.progress = "in progress"]
       ELSE b1

ButtonState == [isScrapingActive |-> isScrapingActive, scrapeStatus |-> scrapeStatus,
                sbError |-> sbError, progress |-> progress,
                lastScrapeDate |-> lastScrapeDate]
InitialButton == [isScrapingActive |-> FALSE, scrapeStatus |-> Null, sbError |-> "",
                  progress |-> "", lastScrapeDate |-> Null]

SetButton(b) ==
  /\ isScrapingActive' = b.isScrapingActive
  /\ scrapeStatus' = b.scrapeStatus
  /\ sbError' = b.sbError
  /\ progress' = b.progress
  /\ lastScrapeDate' = b.lastScrapeDate

ScrapeInit ==
  /\ selectedVendor = ""
  /\ btnType \in Types
  /\ isScrapingActive = FALSE
  /\ scrapeStatus = Null
  /\ sbError = ""
  /\ progress = ""
  /\ lastScrapeDate = Null
  /\ lsStatus = [v \in Vendors |-> Null]
  /\ lsLastScrape = [v \in Vendors |-> Null]
  /\ jobs = [j \in JobIds |-> NoJob]
  /\ sbClicks = 0
  /\ sbRequests = 0
  /\ now = 0

\* ScrapePage.handleVendorChange: the buttons are rendered only while a vendor
\* is selected; choosing "" unmounts them, choosing a vendor mounts them or
\* hands the mounted button a new vendor prop, and the [vendor] effect runs
selectVendor(v) ==
  /\ ~reloadPending
  /\ view = "scrape"
  /\ v # selectedVendor
  /\ selectedVendor' = v
  /\ IF v = ""
       THEN /\ FreshButton
            /\ jobs' = [j \in JobIds |-> [jobs[j] EXCEPT !.live = FALSE]]
       ELSE /\ SetButton(checkExistingStatus(v,
                 IF selectedVendor = "" THEN InitialButton ELSE ButtonState))
            /\ jobs' = jobs
  /\ UNCHANGED <<btnType, lsStatus, lsLastScrape, sbClicks, sbRequests, now>>
  /\ UNCHANGED <<browserVars, nonScrapeVars>>

FreeJob == CHOOSE j \in JobIds : jobs[j].phase = "none" /\ \A i \in JobIds : i < j => jobs[i].phase # "none"

\* handleStartScraping up to the await: one click, one request
handleStartScraping ==
  /\ ~reloadPending
  /\ view = "scrape"
  /\ selectedVendor # ""
  /\ ~isScrapingActive
  /\ \E j \in JobIds : jobs[j].phase = "none"
  /\ isScrapingActive' = TRUE
  /\ sbError' = ""
  /\ scrapeStatus' = Some("starting")
  /\ progress' = "initializing"
  /\ lsStatus' = [lsStatus EXCEPT ![selectedVendor] = Some("starting")]
  /\ jobs' = [jobs EXCEPT ![FreeJob] =
                [NoJob EXCEPT !.phase = "inflight", !.vendor = selectedVendor,
                              !.live = TRUE]]
  /\ sbClicks' = sbClicks + 1
  /\ sbRequests' = sbRequests + 1
  /\ UNCHANGED <<selectedVendor, btnType, lastScrapeDate, lsLastScrape, now>>
  /\ UNCHANGED <<browserVars, nonScrapeVars>>

\* a catch block that sends the request again
RequestsAfterFailureRetry(n) == n + 1
\* the requests sent once the catch block of a handler has run: it sends none
RequestsAfterFailure(n) == n

\* the start request of job j settles with outcome r
startSettle(j, r) ==
  /\ ~reloadPending
  /\ jobs[j].phase = "inflight"
  /\ IF r.success
       THEN \* response.success: status 'running', the two timers are armed
            /\ jobs' = [jobs EXCEPT ![j].phase = "running", ![j].ackAt = now,
                                    ![j].iv = ProgressDelay(btnType),
                                    ![j].to = CompleteDelay(btnType)]
            /\ lsStatus' = [lsStatus EXCEPT ![jobs[j].vendor] = Some("running")]
            /\ IF jobs[j].live
                 THEN /\ scrapeStatus' = Some("running")
                      /\ progress' = "running"
                      /\ UNCHANGED <<isScrapingActive, sbError, lastScrapeDate>>
                 ELSE UNCHANGED <<isScrapingActive, scrapeStatus, sbError, progress,
                                  lastScrapeDate>>
            /\ sbRequests' = sbRequests
            /\ UNCHANGED browserVars
       ELSE \* the request failed or the body says so: the catch block
            /\ jobs' = [jobs EXCEPT ![j].phase = "failed"]
            /\ lsStatus' = [lsStatus EXCEPT ![jobs[j].vendor] = Null]
            /\ IF jobs[j].live
                 THEN /\ sbError' = handleAPIError(r)
                      /\ scrapeStatus' = Some("error")
                      /\ isScrapingActive' = FALSE
                      /\ progress' = ""
                      /\ UNCHANGED lastScrapeDate
                 ELSE UNCHANGED <<isScrapingActive, scrapeStatus, sbError, progress,
                                  lastScrapeDate>>
            /\ sbRequests' = RequestsAfterFailure(sbRequests)
            /\ IF IsError(r.status) THEN ResponseError(r.status)
                                    ELSE UNCHANGED browserVars
  /\ UNCHANGED <<selectedVendor, btnType, lsLastScrape, sbClicks, now>>
  /\ UNCHANGED nonScrapeVars

\* the setInterval callback of job j: the next progress message, if any is left
intervalFire(j) ==
  /\ ~reloadPending
  /\ jobs[j].iv = 0
  /\ jobs' = [jobs EXCEPT ![j].iv = ProgressDelay(btnType),
                          ![j].idx = IF @ < ProgressMessages THEN @ + 1 ELSE @]
  /\ progress' = IF jobs[j].live /\ jobs[j].idx < ProgressMessages
                   THEN "message" \o ToString(jobs[j].idx)
                   ELSE progress
  /\ UNCHANGED <<selectedVendor, btnType, isScrapingActive, scrapeStatus, sbError,
                 lastScrapeDate, lsStatus, lsLastScrape, sbClicks, sbRequests, now>>
  /\ UNCHANGED <<browserVars, nonScrapeVars>>

\* the completion setTimeout of job j: clearInterval, then completeProcess
completeProcess(j) ==
  /\ ~reloadPending
  /\ jobs[j].to = 0
  /\ jobs' = [jobs EXCEPT ![j].phase = "done", ![j].to = Off, ![j].iv = Off,
                          ![j].rs = ResetMs, ![j].completes = @ + 1]
  /\ IF jobs[j].live
       THEN /\ scrapeStatus' = Some("completed")
            /\ progress' = "completed"
            /\ isScrapingActive' = FALSE
            /\ lastScrapeDate' = Some(now)
            /\ UNCHANGED sbError
       ELSE UNCHANGED <<isScrapingActive, scrapeStatus, sbError, progress,
                        lastScrapeDate>>
  /\ lsStatus' = [lsStatus EXCEPT ![jobs[j].vendor] = Null]
  /\ lsLastScrape' = [lsLastScrape EXCEPT ![jobs[j].vendor] = Some(toISOString(now))]
  /\ UNCHANGED <<selectedVendor, btnType, sbClicks, sbRequests, now>>
  /\ UNCHANGED <<browserVars, nonScrapeVars>>

\* the 3 s setTimeout of completeProcess: the success display is reset
resetFire(j) ==
  /\ ~reloadPending
  /\ jobs[j].rs = 0
  /\ jobs' = [jobs EXCEPT ![j].rs = Off]
  /\ IF jobs[j].live
       THEN scrapeStatus' = Null /\ progress' = ""
       ELSE UNCHANGED <<scrapeStatus, progress>>
  /\ UNCHANGED <<selectedVendor, btnType, isScrapingActive, sbError, lastScrapeDate,
                 lsStatus, lsLastScrape, sbClicks, sbRequests, now>>
  /\ UNCHANGED <<browserVars, nonScrapeVars>>

PendingTimers ==
  {jobs[j].iv : j \in JobIds} \cup {jobs[j].to : j \in JobIds}
    \cup {jobs[j].rs : j \in JobIds}

Min(S) == CHOOSE x \in S : \A y \in S : x <= y
Max(S) == CHOOSE x \in S : \A y \in S : x >= y
Elapse(t, d) == IF t = Off THEN Off ELSE t - d

\* time passes until the next pending timer is due; a due timer fires first
Tick ==
  /\ ~reloadPending
  /\ 0 \notin PendingTimers
  /\ PendingTimers # {Off}
  /\ LET d == Min(PendingTimers \ {Off}) IN
       /\ now' = now + d
       /\ jobs' = [j \in JobIds |->
                     [jobs[j] EXCEPT !.iv = Elapse(@, d), !.to = Elapse(@, d),
                                     !.rs = Elapse(@, d)]]
  /\ UNCHANGED <<selectedVendor, btnType, isScrapingActive, scrapeStatus, sbError,
                 progress, lastScrapeDate, lsStatus, lsLastScrape, sbClicks, sbRequests>>
  /\ UNCHANGED <<browserVars, nonScrapeVars>>

\* a page load (the user's reload, or the one that follows a 401) ends every
\* timer and every pending continuation; localStorage stays
ScrapePageLoad ==
  /\ reloadPending' = FALSE
  /\ selectedVendor' = ""
  /\ FreshButton
  /\ jobs' = [j \in JobIds |->
                IF jobs[j].phase \in {"none", "failed"} THEN jobs[j]
                ELSE [jobs[j] EXCEPT !.phase = IF @ = "done" THEN "done" ELSE "dropped",
                                     !.live = FALSE, !.iv = Off, !.to = Off, !.rs = Off]]
  /\ (\E j \in JobIds : jobs[j].phase # "none")
  /\ UNCHANGED <<btnType, lsStatus, lsLastScrape, sbClicks, sbRequests, now>>
  /\ UNCHANGED <<lsToken, lsUser, path>>
  /\ UNCHANGED nonScrapeVars

\* the state of a session of user u, signed in and on a page under /dashboard
Session(u, token) ==
  /\ lsToken = Some(token)
  /\ lsUser = Some(JSONstringify(u))
  /\ path = "/dashboard"
  /\ reloadPending = FALSE
  /\ user = Some(u)
  /\ loading = FALSE
  /\ authError = Null
  /\ booted = TRUE
  /\ credentials = InitialCredentials
  /\ isLoading = FALSE
  /\ loginState = "idle"
  /\ loginCreds = InitialCredentials
  /\ apiState = "idle"
  /\ apiOutcome = [kind |-> "none", status |-> 200]

\* a signed-in regular user on the Fetch Data page
ScrapeSession == Session(RegularUser, "fake-user-token")

NextScrape ==
  \/ \E v \in Vendors \cup {""} : selectVendor(v)
  \/ handleStartScraping
  \/ \E j \in JobIds, r \in StartOutcomes : startSettle(j, r)
  \/ \E j \in JobIds : intervalFire(j)
  \/ \E j \in JobIds : completeProcess(j)
  \/ \E j \in JobIds : resetFire(j)
  \/ Tick
  \/ ScrapePageLoad

-----------------------------------------------------------------------------
(* Products as the backend returns them, and the list helpers shared by     *)
(* ProductList, GapAnalysis and VendorHistory                               *)

\* Text is a sequence of characters; '' and an absent field are both <<>>,
\* an absent or zero id is 0: the code only tests these fields for truthiness.
pTap == [id |-> 1, sku |-> <<"A", "1">>, title |-> <<"T", "a", "p">>,
         category |-> <<"t">>, manufacturer |-> <<"P">>]
pSink == [id |-> 2, sku |-> <<>>, title |-> <<"S">>,
          category |-> <<"s">>, manufacturer |-> <<>>]
pBath == [id |-> 0, sku |-> <<"b", "2">>, title |-> <<>>,
          category |-> <<>>, manufacturer |-> <<"a">>]
pTwin == [id |-> 1, sku |-> <<"C", "3">>, title |-> <<"t", "a">>,
          category |-> <<"t">>, manufacturer |-> <<>>]

Catalogue == {pTap, pSink, pBath, pTwin}
ProductLists == {<<pTap, pSink, pBath>>, <<pTap, pTwin>>, <<pSink>>, <<>>}

\* product.id || product.sku: a number and a string are never the same key
productKey(p) == IF p.id # 0 THEN <<"id", p.id>> ELSE <<"sku", p.sku>>

Range(f) == {f[i] : i \in DOMAIN f}

\* list.filter(p => selectedProducts.has(p.id || p.sku))
selectedProductsList(list, selected) ==
  SelectSeq(list, LAMBDA p : productKey(p) \in selected)

\* the SKUs of a list, the products without a SKU not filtered out
skusOfUnfiltered(list) == [i \in 1..Len(list) |-> list[i].sku]
\* list.filter(p => p.sku).map(p => p.sku)
skusOf(list) ==
  LET withSku == SelectSeq(list, LAMBDA p : p.sku # <<>>)
  IN [i \in 1..Len(withSku) |-> withSku[i].sku]

\* String.prototype.toLowerCase and String.prototype.includes
lowerChar(c) ==
  CASE c = "A" -> "a" [] c = "C" -> "c" [] c = "P" -> "p" [] c = "S" -> "s"
    [] c = "T" -> "t" [] OTHER -> c
toLowerCase(s) == [i \in 1..Len(s) |-> lowerChar(s[i])]
includes(s, t) ==
  \E i \in 0..(Len(s) - Len(t)) : SubSeq(s, i + 1, i + Len(t)) = t

-----------------------------------------------------------------------------
(* Backend calls in flight                                                  *)

\* how many backend calls may be in flight at once
MaxCalls == 2

NoArg == [vendor |-> "", tab |-> "", page |-> 0, category |-> <<>>,
          search |-> <<>>, skus |-> <<>>, type |-> "", status |-> "", limit |-> 0]
\* a pending call: the API function, the component whose continuation waits
\* for it, whether that component instance is still mounted, the parameters
Call(op, from, arg) == [op |-> op, from |-> from, live |-> TRUE, arg |-> arg]

Remove(s, i) == SubSeq(s, 1, i - 1) \o SubSeq(s, i + 1, Len(s))

\* component c is unmounted: its pending calls lose their component, and of
\* what they sent only the vendor is of further interest
Orphan(cs, c) ==
  [i \in 1..Len(cs) |->
     IF cs[i].from = c
       THEN [cs[i] EXCEPT !.live = FALSE, !.arg = [NoArg EXCEPT !.vendor = cs[i].arg.vendor]]
       ELSE cs[i]]

FailureStatuses == {0, 401, 500}
\* handleAPIError(error) for a failed call with the given HTTP status
apiErrorMessage(status) ==
  IF status = 0 THEN "Network error - please check your connection"
  ELSE "Server error occurred"

\* what GET /api/products can answer: a page of products and the total count;
\* the has_next / has_prev flags follow from the requested page
ProductPages ==
  {[products |-> <<pTap, pSink, pBath>>, total |-> 30],
   [products |-> <<pTap, pTwin>>, total |-> 30],
   [products |-> <<pSink>>, total |-> 1],
   [products |-> <<>>, total |-> 0]}

-----------------------------------------------------------------------------
(* pages/UserDashboard.jsx (products page) and components/User/ProductList  *)

\* the highest page the model lets the user request
MaxPage == 2

\* filters.limit and the page size of the pagination arithmetic
PageSize == 12

Categories == {<<>>, <<"t">>}
SearchTerms == {<<>>, <<"a">>}

InitialFilters == [category |-> <<>>, search |-> <<>>, page |-> 1]
InitialPagination == [total |-> 0, hasNext |-> FALSE, hasPrev |-> FALSE]

\* params of loadProducts for the filters f
productParams(f) ==
  [NoArg EXCEPT !.page = f.page, !.category = f.category, !.search = f.search]

\* useState initial values of the list component
FreshList ==
  /\ selectedProducts' = {}
  /\ selectMode' = FALSE
  /\ bulkListingLoading' = FALSE

ListIdle ==
  /\ selectedProducts = {}
  /\ selectMode = FALSE
  /\ bulkListingLoading = FALSE

\* useState initial values of UserDashboard
DashboardIdle ==
  /\ products = <<>>
  /\ udLoading = TRUE
  /\ searchLoading = FALSE
  /\ filters = InitialFilters
  /\ pagination = InitialPagination

\* no alert(), no bulk click and no response in the step that led here
Quiet == alertMsg' = "" /\ bulkClicked' = FALSE /\ response' = Null

\* the step runs the continuation of call c; ok: the API function resolved
Handled(c, ok) ==
  /\ bulkClicked' = FALSE
  /\ response' = Some([op |-> c.op, live |-> c.live, ok |-> ok])

\* setProducts / setPagination from the response to a request for the given
\* page; the [products] effect of ProductList then empties the selection
applyProductPage(data, page) ==
  /\ products' = data.products
  /\ pagination' = [total |-> data.total, hasNext |-> page * PageSize < data.total,
                    hasPrev |-> page > 1]
  /\ selectedProducts' = {}

\* loadInitialData after its await: call i settles with a page or fails
loadInitialDataSettle(i, status, data) ==
  /\ ~reloadPending
  /\ view = "products"
  /\ i \in DOMAIN calls
  /\ calls[i].op = "loadInitialData"
  /\ calls' = Remove(calls, i)
  /\ udLoading' = FALSE
  /\ IF status = 200
       THEN applyProductPage(data, calls[i].arg.page) /\ UNCHANGED browserVars
       ELSE /\ UNCHANGED <<products, pagination, selectedProducts>>
            /\ ResponseError(status)
  /\ alertMsg' = ""
  /\ Handled(calls[i], status = 200)
  /\ UNCHANGED <<view, searchLoading, filters, selectMode, bulkListingLoading>>
  /\ UNCHANGED nonProductsVars

\* loadProducts after its await
loadProductsSettle(i, status, data) ==
  /\ ~reloadPending
  /\ view = "products"
  /\ i \in DOMAIN calls
  /\ calls[i].op = "loadProducts"
  /\ calls' = Remove(calls, i)
  /\ searchLoading' = FALSE
  /\ IF status = 200
       THEN applyProductPage(data, calls[i].arg.page) /\ UNCHANGED browserVars
       ELSE /\ UNCHANGED <<products, pagination, selectedProducts>>
            /\ ResponseError(status)
  /\ alertMsg' = ""
  /\ Handled(calls[i], status = 200)
  /\ UNCHANGED <<view, udLoading, filters, selectMode, bulkListingLoading>>
  /\ UNCHANGED nonProductsVars

\* UserDashboard.handleScrapeComplete, the onScrapeComplete callback of the
\* /scrape route: loadInitialData up to its await
handleScrapeComplete ==
  /\ ~reloadPending
  /\ view = "products"
  /\ Len(calls) < MaxCalls
  /\ calls' = Append(calls, Call("loadInitialData", "UserDashboard", [NoArg EXCEPT !.page = 1]))
  /\ Quiet
  /\ UNCHANGED <<view, dashboardVars, listVars>>
  /\ UNCHANGED <<browserVars, nonProductsVars>>

\* a loadProducts without the searchLoading guard
loadProductsUnguarded(f) ==
  /\ Len(calls) < MaxCalls
  /\ searchLoading' = TRUE
  /\ calls' = Append(calls, Call("loadProducts", "UserDashboard", productParams(f)))
\* the [filters] effect: loadProducts up to its await, for the new filters f
loadProducts(f) ==
  IF searchLoading
    THEN UNCHANGED <<searchLoading, calls>>
    ELSE /\ Len(calls) < MaxCalls
         /\ searchLoading' = TRUE
         /\ calls' = Append(calls, Call("loadProducts", "UserDashboard", productParams(f)))

\* { ...prev, ...newFilters }
mergeFilters(prev, newFilters) ==
  [k \in DOMAIN prev |-> IF k \in DOMAIN newFilters THEN newFilters[k] ELSE prev[k]]

\* what CategoryFilter can pass to onFilterChange: the search form and the
\* category select are disabled while searchLoading, "Clear Filters" is shown
\* while a filter is active
FilterChanges ==
  {[search |-> s] : s \in IF searchLoading THEN {} ELSE SearchTerms}
    \cup {[category |-> c] : c \in IF searchLoading THEN {} ELSE Categories}
    \cup (IF filters.category # <<>> \/ filters.search # <<>>
            THEN {[category |-> <<>>, search |-> <<>>]} ELSE {})

\* UserDashboard.handleFilterChange and the [filters] effect it triggers
handleFilterChange(newFilters) ==
  /\ ~reloadPending
  /\ view = "products"
  /\ newFilters \in FilterChanges
  /\ filters' = [mergeFilters(filters, newFilters) EXCEPT !.page = 1]
  /\ loadProducts(filters')
  /\ Quiet
  /\ UNCHANGED <<view, products, udLoading, pagination, listVars>>
  /\ UNCHANGED <<browserVars, nonProductsVars>>

\* ProductList renders the list and its controls
listShown == ~(udLoading \/ searchLoading) /\ products # <<>>

totalPages == (pagination.total + PageSize - 1) \div PageSize

\* a bar whose window does not stop at the last page
pageNumberSeqNoEnd(currentPage) ==
  [k \in 1..(IF totalPages < 5 THEN totalPages ELSE 5) |->
     LET i == k - 1 IN
     IF totalPages <= 5 THEN i + 1
     ELSE IF currentPage <= 3 THEN i + 1
     ELSE currentPage - 2 + i]
\* Array.from({ length: Math.min(5, totalPages) }, (_, i) => pageNum): the
\* numbers on the page buttons of ProductList, in order
pageNumberSeq(currentPage) ==
  [k \in 1..(IF totalPages < 5 THEN totalPages ELSE 5) |->
     LET i == k - 1 IN
     IF totalPages <= 5 THEN i + 1
     ELSE IF currentPage <= 3 THEN i + 1
     ELSE IF currentPage >= totalPages - 2 THEN totalPages - 4 + i
     ELSE currentPage - 2 + i]

\* the page numbers on the buttons of ProductList
pageNumbers(currentPage) == Range(pageNumberSeq(currentPage))

\* "Showing startIndex-endIndex of total products"
startIndex == (filters.page - 1) * PageSize + 1
endIndex == Min({filters.page * PageSize, pagination.total})

PageButtons ==
  IF listShown /\ totalPages > 1
    THEN pageNumbers(filters.page)
           \cup (IF pagination.hasPrev THEN {filters.page - 1} ELSE {})
           \cup (IF pagination.hasNext THEN {filters.page + 1} ELSE {})
    ELSE {}

\* the totals and pages the pagination of ProductList is rendered for
MaxTotal == 80
BarPages == 1..((MaxTotal + PageSize - 1) \div PageSize)

\* ProductList is rendered with some total and some current page
BarInit ==
  /\ view = "products"
  /\ calls = <<>>
  /\ products = <<pTap>>
  /\ udLoading = FALSE
  /\ searchLoading = FALSE
  /\ \E t \in 0..MaxTotal, currentPage \in BarPages :
       /\ filters = [InitialFilters EXCEPT !.page = currentPage]
       /\ pagination = [total |-> t, hasNext |-> currentPage * PageSize < t,
                        hasPrev |-> currentPage > 1]
  /\ bar = Null

\* the render of ProductList computes the pagination
renderBar ==
  /\ view = "products"
  /\ bar = Null
  /\ bar' = Some([numbers |-> pageNumberSeq(filters.page),
                  startIndex |-> startIndex, endIndex |-> endIndex])
  /\ UNCHANGED <<browserVars, authVars, scrapeVars, cardVars, view, calls, alertMsg,
                 bulkClicked, response, dashboardVars, listVars, gapVars,
                 vendorHistoryVars, historyVars, listingVars>>

\* a click on a page number of the bar (shown when totalPages > 1): the
\* parent passes the page back as currentPage and the list renders again
barPageClick(pageNum) ==
  /\ view = "products"
  /\ bar # Null
  /\ totalPages > 1
  /\ pageNum \in Range(bar[1].numbers)
  /\ pageNum \in BarPages
  /\ filters' = [filters EXCEPT !.page = pageNum]
  /\ bar' = Null
  /\ UNCHANGED <<products, udLoading, searchLoading, pagination>>
  /\ UNCHANGED <<browserVars, authVars, scrapeVars, cardVars, view, calls, alertMsg,
                 bulkClicked, response, listVars, gapVars,
                 vendorHistoryVars, historyVars, listingVars>>

NextBar ==
  \/ renderBar
  \/ \E n \in -3..(Max(BarPages) + 2) : barPageClick(n)

\* UserDashboard.handlePageChange and the [filters] effect it triggers
handlePageChange(newPage) ==
  /\ ~reloadPending
  /\ view = "products"
  /\ newPage \in PageButtons
  /\ newPage <= MaxPage
  /\ filters' = [filters EXCEPT !.page = newPage]
  /\ loadProducts(filters')
  /\ Quiet
  /\ UNCHANGED <<view, products, udLoading, pagination, listVars>>
  /\ UNCHANGED <<browserVars, nonProductsVars>>

\* ProductList.handleSelectionChange(product, isSelected), called by the
\* checkbox of a card or row with the negation of what it shows
handleSelectionChange(product, isSelected) ==
  /\ ~reloadPending
  /\ view = "products"
  /\ listShown /\ selectMode
  /\ product \in Range(products)
  /\ isSelected = (productKey(product) \notin selectedProducts)
  /\ selectedProducts' = IF isSelected
                           THEN selectedProducts \cup {productKey(product)}
                           ELSE selectedProducts \ {productKey(product)}
  /\ Quiet
  /\ UNCHANGED <<view, calls, dashboardVars, selectMode, bulkListingLoading>>
  /\ UNCHANGED <<browserVars, nonProductsVars>>

\* ProductList.handleSelectAll
handleSelectAll ==
  /\ ~reloadPending
  /\ view = "products"
  /\ listShown /\ selectMode
  /\ selectedProducts' = IF Cardinality(selectedProducts) = Len(products)
                           THEN {}
                           ELSE {productKey(products[i]) : i \in DOMAIN products}
  /\ Quiet
  /\ UNCHANGED <<view, calls, dashboardVars, selectMode, bulkListingLoading>>
  /\ UNCHANGED <<browserVars, nonProductsVars>>

\* a toggle that leaves the selection alone
selectionAfterToggleKept(mode, selected) == selected
\* if (selectMode) setSelectedProducts(new Set()), for the select mode and
\* the selection of the render
selectionAfterToggle(mode, selected) == IF mode THEN {} ELSE selected

\* ProductList.toggleSelectMode
toggleSelectMode ==
  /\ ~reloadPending
  /\ view = "products"
  /\ listShown
  /\ selectMode' = ~selectMode
  /\ selectedProducts' = selectionAfterToggle(selectMode, selectedProducts)
  /\ Quiet
  /\ UNCHANGED <<view, calls, dashboardVars, bulkListingLoading>>
  /\ UNCHANGED <<browserVars, nonProductsVars>>

\* the calls in flight once the catch block of a bulk listing has run for
\* call c: the block sends nothing
callsAfterFailureRetry(cs, c) == Append(cs, c)
callsAfterFailure(cs, c) == cs

\* handleBulkListOnShopify of a list component up to its await, for the list
\* it displays: an alert, or bulkListingLoading and one request
bulkListStart(component, displayed, vendor) ==
  LET skus == skusOf(selectedProductsList(displayed, selectedProducts)) IN
  /\ bulkClicked' = TRUE
  /\ response' = Null
  /\ IF selectedProductsList(displayed, selectedProducts) = <<>>
       THEN /\ alertMsg' = "Please select at least one product to list"
            /\ UNCHANGED <<calls, bulkListingLoading>>
       ELSE IF skus = <<>>
       THEN /\ alertMsg' = "Selected products must have SKUs to be listed"
            /\ UNCHANGED <<calls, bulkListingLoading>>
       ELSE /\ Len(calls) < MaxCalls
            /\ bulkListingLoading' = TRUE
            /\ calls' = Append(calls, Call("listMultipleProducts", component,
                                           [NoArg EXCEPT !.skus = skus, !.vendor = vendor]))
            /\ alertMsg' = ""

\* a success branch that leaves the selection as it is
selectedAfterListingKept(selected) == selected
\* setSelectedProducts(new Set()) in the success branch
selectedAfterListing(selected) == {}

\* handleBulkListOnShopify of ProductList and VendorHistory after the await
\* of call i
bulkListOutcome(i, status) ==
  /\ Handled(calls[i], status = 200)
  /\ IF status = 200
       THEN /\ alertMsg' = "Successfully initiated listing"
            /\ calls' = Remove(calls, i)
            /\ IF calls[i].live
                 THEN /\ selectedProducts' = selectedAfterListing(selectedProducts)
                      /\ selectMode' = FALSE
                 ELSE UNCHANGED <<selectedProducts, selectMode>>
            /\ UNCHANGED browserVars
       ELSE /\ alertMsg' = "Failed to list products: " \o apiErrorMessage(status)
            /\ calls' = callsAfterFailure(Remove(calls, i), calls[i])
            /\ UNCHANGED <<selectedProducts, selectMode>>
            /\ ResponseError(status)
  /\ bulkListingLoading' = IF calls[i].live THEN FALSE ELSE bulkListingLoading

\* ProductList.handleBulkListOnShopify: the button is rendered in select mode
\* and enabled while something is selected and no bulk listing is pending
handleBulkListOnShopify ==
  /\ ~reloadPending
  /\ view = "products"
  /\ listShown /\ selectMode
  /\ selectedProducts # {} /\ ~bulkListingLoading
  /\ bulkListStart("ProductList", products, "")
  /\ UNCHANGED <<view, dashboardVars, selectedProducts, selectMode>>
  /\ UNCHANGED <<browserVars, nonProductsVars>>

\* ProductList.handleBulkListOnShopify after its await
bulkListSettle(i, status) ==
  /\ ~reloadPending
  /\ view = "products"
  /\ i \in DOMAIN calls
  /\ calls[i].op = "listMultipleProducts"
  /\ calls[i].from = "ProductList"
  /\ bulkListOutcome(i, status)
  /\ UNCHANGED <<view, dashboardVars>>
  /\ UNCHANGED nonProductsVars

\* the route leaves the products page and comes back: ProductList is
\* unmounted and mounted again, UserDashboard and its state stay
ProductListRemount ==
  /\ ~reloadPending
  /\ view = "products"
  /\ FreshList
  /\ calls' = Orphan(calls, "ProductList")
  /\ \/ selectedProducts # {} \/ selectMode \/ bulkListingLoading
  /\ Quiet
  /\ UNCHANGED <<view, dashboardVars>>
  /\ UNCHANGED <<browserVars, nonProductsVars>>

-----------------------------------------------------------------------------
(* components/Shared/GapAnalysis.jsx                                        *)

\* the categories offered by CategoryFilter: the sorted distinct truthy
\* categories of the loaded products (a set here, the order is display only)
categoriesOf(list) == {list[i].category : i \in DOMAIN list} \ {<<>>}

\* field?.toLowerCase().includes(searchLower)
fieldMatches(field, search) ==
  field # <<>> /\ includes(toLowerCase(field), toLowerCase(search))

\* a filter effect that searches the category where GapAnalysis searches the
\* manufacturer
gapFilterOverCategory(list, f) ==
  SelectSeq(list, LAMBDA p :
    /\ f.category # <<>> => p.category = f.category
    /\ f.search # <<>> => \/ fieldMatches(p.title, f.search)
                          \/ fieldMatches(p.sku, f.search)
                          \/ fieldMatches(p.category, f.search))
\* the filter effect of GapAnalysis: category, then search over title, sku
\* and manufacturer
gapFilter(list, f) ==
  SelectSeq(list, LAMBDA p :
    /\ f.category # <<>> => p.category = f.category
    /\ f.search # <<>> => \/ fieldMatches(p.title, f.search)
                          \/ fieldMatches(p.sku, f.search)
                          \/ fieldMatches(p.manufacturer, f.search))

InitialListFilters == [category |-> <<>>, search |-> <<>>]

\* useState initial values of GapAnalysis
FreshGap ==
  /\ gaVendor' = ""
  /\ deltaData' = Null
  /\ gaFilteredProducts' = <<>>
  /\ gaLoading' = FALSE
  /\ gaFilters' = InitialListFilters

GapIdle ==
  /\ gaVendor = ""
  /\ deltaData = Null
  /\ gaFilteredProducts = <<>>
  /\ gaLoading = FALSE
  /\ gaFilters = InitialListFilters

\* loadDeltaData(vendor) up to its await, on a mounted component
loadDeltaData(vendor, cs) ==
  IF vendor = ""
    THEN /\ calls' = cs
         /\ UNCHANGED <<gaLoading, deltaData, gaFilteredProducts>>
    ELSE /\ gaLoading' = TRUE
         /\ deltaData' = Null
         /\ gaFilteredProducts' = <<>>
         /\ selectedProducts' = {}
         /\ selectMode' = FALSE
         /\ Len(cs) < MaxCalls
         /\ calls' = Append(cs, Call("getDelta", "GapAnalysis",
                                     [NoArg EXCEPT !.vendor = vendor]))

\* GapAnalysis.handleVendorChange
gapHandleVendorChange(vendor) ==
  /\ ~reloadPending
  /\ view = "gap"
  /\ vendor # gaVendor
  /\ gaVendor' = vendor
  /\ IF vendor # ""
       THEN loadDeltaData(vendor, calls)
       ELSE /\ deltaData' = Null
            /\ gaFilteredProducts' = <<>>
            /\ UNCHANGED <<calls, gaLoading, selectedProducts, selectMode>>
  /\ Quiet
  /\ UNCHANGED <<view, gaFilters, bulkListingLoading>>
  /\ UNCHANGED <<browserVars, nonGapVars>>

\* loadDeltaData after its await; the [filters, deltaData] effect follows the
\* new deltaData
loadDeltaDataSettle(i, status, list) ==
  /\ ~reloadPending
  /\ view = "gap"
  /\ i \in DOMAIN calls
  /\ calls[i].op = "getDelta"
  /\ calls' = Remove(calls, i)
  /\ IF status = 200
       THEN /\ IF calls[i].live
                 THEN /\ deltaData' = Some(list)
                      /\ gaFilteredProducts' = gapFilter(list, gaFilters)
                 ELSE UNCHANGED <<deltaData, gaFilteredProducts>>
            /\ alertMsg' = ""
            /\ UNCHANGED browserVars
       ELSE /\ alertMsg' = "Failed to load gap analysis: " \o apiErrorMessage(status)
            /\ UNCHANGED <<deltaData, gaFilteredProducts>>
            /\ ResponseError(status)
  /\ gaLoading' = IF calls[i].live THEN FALSE ELSE gaLoading
  /\ Handled(calls[i], status = 200)
  /\ UNCHANGED <<view, gaVendor, gaFilters, listVars>>
  /\ UNCHANGED nonGapVars

\* the list and its controls are rendered
gapListShown == deltaData # Null /\ ~gaLoading /\ gaFilteredProducts # <<>>

\* what CategoryFilter (rendered while categories exist) can pass
GapFilterChanges ==
  IF deltaData # Null /\ ~gaLoading /\ categoriesOf(deltaData[1]) # {}
    THEN {[search |-> s] : s \in SearchTerms}
           \cup {[category |-> c] : c \in categoriesOf(deltaData[1]) \cup {<<>>}}
           \cup (IF gaFilters.category # <<>> \/ gaFilters.search # <<>>
                   THEN {[category |-> <<>>, search |-> <<>>]} ELSE {})
    ELSE {}

\* GapAnalysis.handleFilterChange and the [filters, deltaData] effect
gapHandleFilterChange(newFilters) ==
  /\ ~reloadPending
  /\ view = "gap"
  /\ newFilters \in GapFilterChanges
  /\ gaFilters' = mergeFilters(gaFilters, newFilters)
  /\ gaFilteredProducts' = gapFilter(deltaData[1], gaFilters')
  /\ Quiet
  /\ UNCHANGED <<view, calls, gaVendor, deltaData, gaLoading, listVars>>
  /\ UNCHANGED <<browserVars, nonGapVars>>

\* GapAnalysis.handleSelectionChange
gapHandleSelectionChange(product, isSelected) ==
  /\ ~reloadPending
  /\ view = "gap"
  /\ gapListShown /\ selectMode
  /\ product \in Range(gaFilteredProducts)
  /\ isSelected = (productKey(product) \notin selectedProducts)
  /\ selectedProducts' = IF isSelected
                           THEN selectedProducts \cup {productKey(product)}
                           ELSE selectedProducts \ {productKey(product)}
  /\ Quiet
  /\ UNCHANGED <<view, calls, gapVars, selectMode, bulkListingLoading>>
  /\ UNCHANGED <<browserVars, nonGapVars>>

\* GapAnalysis.handleSelectAll
gapHandleSelectAll ==
  /\ ~reloadPending
  /\ view = "gap"
  /\ gapListShown /\ selectMode
  /\ selectedProducts' =
       IF Cardinality(selectedProducts) = Len(gaFilteredProducts)
         THEN {}
         ELSE {productKey(gaFilteredProducts[i]) : i \in DOMAIN gaFilteredProducts}
  /\ Quiet
  /\ UNCHANGED <<view, calls, gapVars, selectMode, bulkListingLoading>>
  /\ UNCHANGED <<browserVars, nonGapVars>>

\* GapAnalysis.toggleSelectMode
gapToggleSelectMode ==
  /\ ~reloadPending
  /\ view = "gap"
  /\ gapListShown
  /\ selectMode' = ~selectMode
  /\ selectedProducts' = selectionAfterToggle(selectMode, selectedProducts)
  /\ Quiet
  /\ UNCHANGED <<view, calls, gapVars, bulkListingLoading>>
  /\ UNCHANGED <<browserVars, nonGapVars>>

\* GapAnalysis.handleBulkListOnShopify up to its await
gapHandleBulkListOnShopify ==
  /\ ~reloadPending
  /\ view = "gap"
  /\ gapListShown /\ selectMode
  /\ selectedProducts # {} /\ ~bulkListingLoading
  /\ bulkListStart("GapAnalysis", gaFilteredProducts, gaVendor)
  /\ UNCHANGED <<view, gapVars, selectedProducts, selectMode>>
  /\ UNCHANGED <<browserVars, nonGapVars>>

\* GapAnalysis.handleBulkListOnShopify after its await: on success the gap
\* analysis of the vendor selected at the click is loaded again
gapBulkListSettle(i, status) ==
  /\ ~reloadPending
  /\ view = "gap"
  /\ i \in DOMAIN calls
  /\ calls[i].op = "listMultipleProducts"
  /\ calls[i].from = "GapAnalysis"
  /\ Handled(calls[i], status = 200)
  /\ IF status = 200
       THEN /\ alertMsg' = "Successfully initiated listing"
            /\ IF calls[i].live
                 THEN /\ loadDeltaData(calls[i].arg.vendor, Remove(calls, i))
                      /\ IF calls[i].arg.vendor = ""
                           THEN selectedProducts' = {} /\ selectMode' = FALSE
                           ELSE TRUE
                 ELSE /\ calls' = IF calls[i].arg.vendor = "" THEN Remove(calls, i)
                                  ELSE Append(Remove(calls, i),
                                         [Call("getDelta", "GapAnalysis",
                                               [NoArg EXCEPT !.vendor = calls[i].arg.vendor])
                                            EXCEPT !.live = FALSE])
                      /\ UNCHANGED <<gaLoading, deltaData, gaFilteredProducts,
                                     selectedProducts, selectMode>>
            /\ UNCHANGED browserVars
       ELSE /\ alertMsg' = "Failed to list products: " \o apiErrorMessage(status)
            /\ calls' = callsAfterFailure(Remove(calls, i), calls[i])
            /\ UNCHANGED <<gaLoading, deltaData, gaFilteredProducts,
                           selectedProducts, selectMode>>
            /\ ResponseError(status)
  /\ bulkListingLoading' = IF calls[i].live THEN FALSE ELSE bulkListingLoading
  /\ UNCHANGED <<view, gaVendor, gaFilters>>
  /\ UNCHANGED nonGapVars

\* the route leaves the gap analysis page and comes back
GapRemount ==
  /\ ~reloadPending
  /\ view = "gap"
  /\ gaVendor # ""
  /\ FreshGap
  /\ FreshList
  /\ calls' = Orphan(calls, "GapAnalysis")
  /\ Quiet
  /\ UNCHANGED view
  /\ UNCHANGED <<browserVars, nonGapVars>>

-----------------------------------------------------------------------------
(* components/User/VendorHistory.jsx                                         *)

\* pagination.limit of VendorHistory and the limit its requests ask for
VendorHistoryLimit == 20
VendorHistoryRequestLimit == 50

TabKeys == {"ALL", "NEW"}

\* VendorHistory sends a load request while fewer calls than this are in flight
MaxVendorHistoryCalls == 1

\* what GET /api/vendor-web/<vendor> can answer with success: true
VendorHistoryPages ==
  {[products |-> <<pTap, pSink>>, total |-> 60],
   [products |-> <<>>, total |-> 0]}

\* the ways a vendor-history request fails: an HTTP error, no response, or a
\* body with success: false (status 200)
VendorHistoryFailures == FailureStatuses \cup {200}

\* handleAPIError(error) for those failures
vendorHistoryErrorMessage(status) ==
  IF status = 200 THEN "Failed to get vendor history" ELSE apiErrorMessage(status)

\* the filter effect of VendorHistory: category, then search over title, sku
\* and category
vendorHistoryFilter(list, f) ==
  SelectSeq(list, LAMBDA p :
    /\ f.category # <<>> => p.category = f.category
    /\ f.search # <<>> => \/ fieldMatches(p.title, f.search)
                          \/ fieldMatches(p.sku, f.search)
                          \/ fieldMatches(p.category, f.search))

InitialVendorPagination == [page |-> 1, total |-> 0, has_next |-> FALSE, has_prev |-> FALSE]

\* the loadVendorHistory closure of a render: the values it reads
loadClosure(vendor, tab, page) == [vendor |-> vendor, tab |-> tab, page |-> page]

\* useState initial values of VendorHistory; the mount effects have run: the
\* debounce timer is pending with the closure of the first render
FreshVendorHistory ==
  /\ vhVendor' = ""
  /\ activeTab' = "ALL"
  /\ vhProducts' = <<>>
  /\ vhFilteredProducts' = <<>>
  /\ vhLoading' = FALSE
  /\ vhError' = Null
  /\ vhFilters' = InitialListFilters
  /\ vhPagination' = InitialVendorPagination
  /\ searchTimeout' = Some(loadClosure("", "ALL", 1))

VendorHistoryIdle ==
  /\ vhVendor = ""
  /\ activeTab = "ALL"
  /\ vhProducts = <<>>
  /\ vhFilteredProducts = <<>>
  /\ vhLoading = FALSE
  /\ vhError = Null
  /\ vhFilters = InitialListFilters
  /\ vhPagination = InitialVendorPagination
  /\ searchTimeout = Null

\* the request of loadVendorHistory for the closure c
vendorHistoryCall(c) ==
  Call("getVendorHistory", "VendorHistory",
       [NoArg EXCEPT !.vendor = c.vendor, !.tab = c.tab, !.page = c.page])

\* the selection after the filter effect has run for the given products: the
\* effect returns before setSelectedProducts when there are none
selectionAfterFilter(list) == IF list = <<>> THEN selectedProducts ELSE {}

\* a reset that leaves the fetched products in place
resetListsKeepsProducts ==
  /\ UNCHANGED <<vhProducts, vhFilteredProducts>>
  /\ selectedProducts' = {}
  /\ selectMode' = FALSE
\* resetState() apart from the error: the lists and the selection
resetLists ==
  /\ vhProducts' = <<>>
  /\ vhFilteredProducts' = <<>>
  /\ selectedProducts' = {}
  /\ selectMode' = FALSE

\* the error state once the catch block of loadVendorHistory has run:
\* setError(message) is followed by resetState(), which ends in setError(null)
errorAfterFailedLoad(message) == Null

\* VendorHistory.handleVendorChange and the effects of the next render: the
\* load effect (the vendor changed), the filter effect (new filters object)
\* and, when the search text changed, the debounce effect
vendorHistoryHandleVendorChange(vendor) ==
  /\ ~reloadPending
  /\ view = "vendorHistory"
  /\ vendor # vhVendor
  /\ vhVendor' = vendor
  /\ activeTab' = "ALL"
  /\ vhPagination' = [vhPagination EXCEPT !.page = 1]
  /\ vhFilters' = InitialListFilters
  /\ vhError' = Null
  /\ searchTimeout' = IF vhFilters.search # <<>>
                         THEN Some(loadClosure(vendor, "ALL", 1))
                         ELSE searchTimeout
  /\ IF vendor # ""
       THEN /\ Len(calls) < MaxVendorHistoryCalls
            /\ calls' = Append(calls, vendorHistoryCall(loadClosure(vendor, "ALL", 1)))
            /\ vhLoading' = TRUE
            /\ vhProducts' = vhProducts
            /\ vhFilteredProducts' = vendorHistoryFilter(vhProducts, InitialListFilters)
            /\ selectedProducts' = selectionAfterFilter(vhProducts)
            /\ UNCHANGED selectMode
       ELSE /\ resetLists
            /\ UNCHANGED <<calls, vhLoading>>
  /\ Quiet
  /\ UNCHANGED <<view, bulkListingLoading>>
  /\ UNCHANGED <<browserVars, nonVendorHistoryVars>>

\* the tabs and the list area are rendered
vendorHistoryShown == vhVendor # "" /\ ~vhLoading /\ vhError = Null

\* VendorHistory.handleTabChange and the load effect when the tab or the page
\* changed
vendorHistoryHandleTabChange(tabKey) ==
  /\ ~reloadPending
  /\ view = "vendorHistory"
  /\ vendorHistoryShown
  /\ activeTab' = tabKey
  /\ vhPagination' = [vhPagination EXCEPT !.page = 1]
  /\ selectedProducts' = {}
  /\ selectMode' = FALSE
  /\ vhError' = Null
  /\ IF tabKey # activeTab \/ vhPagination.page # 1
       THEN /\ Len(calls) < MaxVendorHistoryCalls
            /\ calls' = Append(calls, vendorHistoryCall(loadClosure(vhVendor, tabKey, 1)))
            /\ vhLoading' = TRUE
       ELSE UNCHANGED <<calls, vhLoading>>
  /\ Quiet
  /\ UNCHANGED <<view, vhVendor, vhProducts, vhFilteredProducts, vhFilters,
                 searchTimeout, bulkListingLoading>>
  /\ UNCHANGED <<browserVars, nonVendorHistoryVars>>

\* what CategoryFilter (rendered while categories exist) can pass
VendorHistoryFilterChanges ==
  IF vendorHistoryShown /\ categoriesOf(vhProducts) # {}
    THEN {[search |-> s] : s \in SearchTerms}
           \cup {[category |-> c] : c \in categoriesOf(vhProducts) \cup {<<>>}}
           \cup (IF vhFilters.category # <<>> \/ vhFilters.search # <<>>
                   THEN {[category |-> <<>>, search |-> <<>>]} ELSE {})
    ELSE {}

\* VendorHistory.handleFilterChange, the filter effect and, when the search
\* text changed, the debounce effect: a new 500 ms timer that holds the
\* loadVendorHistory of this render
vendorHistoryHandleFilterChange(newFilters) ==
  /\ ~reloadPending
  /\ view = "vendorHistory"
  /\ newFilters \in VendorHistoryFilterChanges
  /\ vhFilters' = mergeFilters(vhFilters, newFilters)
  /\ vhFilteredProducts' = vendorHistoryFilter(vhProducts, vhFilters')
  /\ selectedProducts' = selectionAfterFilter(vhProducts)
  /\ searchTimeout' = IF vhFilters'.search # vhFilters.search
                         THEN Some(loadClosure(vhVendor, activeTab, vhPagination.page))
                         ELSE searchTimeout
  /\ Quiet
  /\ UNCHANGED <<view, calls, vhVendor, activeTab, vhProducts, vhLoading, vhError,
                 vhPagination, selectMode, bulkListingLoading>>
  /\ UNCHANGED <<browserVars, nonVendorHistoryVars>>

\* the debounce timer fires: the page is set to 1 and the loadVendorHistory the
\* timer holds is called; when the page was not 1 the load effect runs as well
searchTimeoutFire ==
  LET held == searchTimeout[1]
      current == loadClosure(vhVendor, activeTab, 1)
      requests == (IF held.vendor # "" THEN <<vendorHistoryCall(held)>> ELSE <<>>)
                    \o (IF vhPagination.page # 1 /\ vhVendor # ""
                          THEN <<vendorHistoryCall(current)>> ELSE <<>>)
  IN
  /\ ~reloadPending
  /\ view = "vendorHistory"
  /\ searchTimeout # Null
  /\ searchTimeout' = Null
  /\ vhPagination' = [vhPagination EXCEPT !.page = 1]
  /\ requests = <<>> \/ Len(calls) < MaxVendorHistoryCalls
  /\ calls' = calls \o requests
  /\ IF requests # <<>>
       THEN vhLoading' = TRUE /\ vhError' = Null
       ELSE UNCHANGED <<vhLoading, vhError>>
  /\ Quiet
  /\ UNCHANGED <<view, vhVendor, activeTab, vhProducts, vhFilteredProducts, vhFilters,
                 listVars>>
  /\ UNCHANGED <<browserVars, nonVendorHistoryVars>>

\* VendorHistory.handlePageChange, from the Previous / Next buttons, and the
\* load effect
vendorHistoryHandlePageChange(newPage) ==
  /\ ~reloadPending
  /\ view = "vendorHistory"
  /\ vendorHistoryShown /\ vhFilteredProducts # <<>>
  /\ vhPagination.total > VendorHistoryLimit
  /\ \/ vhPagination.has_prev /\ newPage = vhPagination.page - 1
     \/ vhPagination.has_next /\ newPage = vhPagination.page + 1
  /\ newPage \in 1..MaxPage
  /\ vhPagination' = [vhPagination EXCEPT !.page = newPage]
  /\ Len(calls) < MaxVendorHistoryCalls
  /\ calls' = Append(calls, vendorHistoryCall(loadClosure(vhVendor, activeTab, newPage)))
  /\ vhLoading' = TRUE
  /\ vhError' = Null
  /\ Quiet
  /\ UNCHANGED <<view, vhVendor, activeTab, vhProducts, vhFilteredProducts, vhFilters,
                 searchTimeout, listVars>>
  /\ UNCHANGED <<browserVars, nonVendorHistoryVars>>

\* loadVendorHistory after its await; a new products array runs the filter
\* effect, which also empties the selection
loadVendorHistorySettle(i, status, data) ==
  /\ ~reloadPending
  /\ view = "vendorHistory"
  /\ i \in DOMAIN calls
  /\ calls[i].op = "getVendorHistory"
  /\ calls' = Remove(calls, i)
  /\ IF ~calls[i].live
       THEN UNCHANGED <<vhProducts, vhFilteredProducts, vhPagination, vhError,
                        vhLoading, selectedProducts, selectMode>>
       ELSE /\ vhLoading' = FALSE
            /\ IF status = 200 /\ data # Null
                 THEN /\ vhProducts' = data[1].products
                      /\ vhFilteredProducts' = vendorHistoryFilter(data[1].products, vhFilters)
                      /\ selectedProducts' = selectionAfterFilter(data[1].products)
                      /\ vhPagination' =
                           [vhPagination EXCEPT
                              !.total = data[1].total,
                              !.has_next = calls[i].arg.page * VendorHistoryRequestLimit
                                             < data[1].total,
                              !.has_prev = calls[i].arg.page > 1]
                      /\ UNCHANGED <<vhError, selectMode>>
                 ELSE /\ resetLists
                      /\ vhError' = errorAfterFailedLoad(
                           "Failed to load vendor history: "
                             \o vendorHistoryErrorMessage(status))
                      /\ UNCHANGED vhPagination
  /\ IF IsError(status) THEN ResponseError(status) ELSE UNCHANGED browserVars
  /\ alertMsg' = ""
  /\ Handled(calls[i], status = 200 /\ data # Null)
  /\ UNCHANGED <<view, vhVendor, activeTab, vhFilters, searchTimeout, bulkListingLoading>>
  /\ UNCHANGED nonVendorHistoryVars

\* the list and its controls are rendered
vendorHistoryListShown == vendorHistoryShown /\ vhFilteredProducts # <<>>

\* VendorHistory.handleSelectionChange
vendorHistoryHandleSelectionChange(product, isSelected) ==
  /\ ~reloadPending
  /\ view = "vendorHistory"
  /\ vendorHistoryListShown /\ selectMode
  /\ product \in Range(vhFilteredProducts)
  /\ isSelected = (productKey(product) \notin selectedProducts)
  /\ selectedProducts' = IF isSelected
                           THEN selectedProducts \cup {productKey(product)}
                           ELSE selectedProducts \ {productKey(product)}
  /\ Quiet
  /\ UNCHANGED <<view, calls, vendorHistoryVars, selectMode, bulkListingLoading>>
  /\ UNCHANGED <<browserVars, nonVendorHistoryVars>>

\* VendorHistory.handleSelectAll
vendorHistoryHandleSelectAll ==
  /\ ~reloadPending
  /\ view = "vendorHistory"
  /\ vendorHistoryListShown /\ selectMode
  /\ selectedProducts' =
       IF Cardinality(selectedProducts) = Len(vhFilteredProducts)
         THEN {}
         ELSE {productKey(vhFilteredProducts[i]) : i \in DOMAIN vhFilteredProducts}
  /\ Quiet
  /\ UNCHANGED <<view, calls, vendorHistoryVars, selectMode, bulkListingLoading>>
  /\ UNCHANGED <<browserVars, nonVendorHistoryVars>>

\* VendorHistory.toggleSelectMode
vendorHistoryToggleSelectMode ==
  /\ ~reloadPending
  /\ view = "vendorHistory"
  /\ vendorHistoryListShown
  /\ selectMode' = ~selectMode
  /\ selectedProducts' = selectionAfterToggle(selectMode, selectedProducts)
  /\ Quiet
  /\ UNCHANGED <<view, calls, vendorHistoryVars, bulkListingLoading>>
  /\ UNCHANGED <<browserVars, nonVendorHistoryVars>>

\* VendorHistory.handleBulkListOnShopify up to its await
vendorHistoryHandleBulkListOnShopify ==
  /\ ~reloadPending
  /\ view = "vendorHistory"
  /\ vendorHistoryListShown /\ selectMode
  /\ selectedProducts # {} /\ ~bulkListingLoading
  /\ bulkListStart("VendorHistory", vhFilteredProducts, vhVendor)
  /\ UNCHANGED <<view, vendorHistoryVars, selectedProducts, selectMode>>
  /\ UNCHANGED <<browserVars, nonVendorHistoryVars>>

\* VendorHistory.handleBulkListOnShopify after its await
vendorHistoryBulkListSettle(i, status) ==
  /\ ~reloadPending
  /\ view = "vendorHistory"
  /\ i \in DOMAIN calls
  /\ calls[i].op = "listMultipleProducts"
  /\ calls[i].from = "VendorHistory"
  /\ bulkListOutcome(i, status)
  /\ UNCHANGED <<view, vendorHistoryVars>>
  /\ UNCHANGED nonVendorHistoryVars

\* the route leaves the vendor history page and comes back
VendorHistoryRemount ==
  /\ ~reloadPending
  /\ view = "vendorHistory"
  /\ vhVendor # ""
  /\ FreshVendorHistory
  /\ FreshList
  /\ calls' = Orphan(calls, "VendorHistory")
  /\ Quiet
  /\ UNCHANGED view
  /\ UNCHANGED <<browserVars, nonVendorHistoryVars>>

-----------------------------------------------------------------------------
(* components/Admin/HistoryPage.jsx                                          *)

\* filters.limit of HistoryPage
HistoryLimit == 20

\* fetch operations as GET /api/admin/history returns them
opScrape == [id |-> 1, type |-> "scrape", vendor |-> "phoenix", status |-> "completed"]
opShopify == [id |-> 2, type |-> "shopify", vendor |-> "phoenix", status |-> "error"]

\* what the endpoint can answer: a page of operations and the total count
HistoryPages ==
  {[history |-> <<opScrape, opShopify>>, total |-> 45],
   [history |-> <<opShopify>>, total |-> 1],
   [history |-> <<>>, total |-> 0]}

\* the filter selects that are operated and the values chosen in them; the
\* vendor select is left at ''
HistoryFilterValues == [type |-> {"", "scrape"}, status |-> {"", "error"}]

InitialHistoryFilters == [type |-> "", vendor |-> "", status |-> "", page |-> 1]

\* useState initial values of HistoryPage
FreshHistory ==
  /\ history' = <<>>
  /\ hpLoading' = TRUE
  /\ hpFilters' = InitialHistoryFilters
  /\ hpPagination' = Null

HistoryIdle ==
  /\ history = <<>>
  /\ hpLoading = TRUE
  /\ hpFilters = InitialHistoryFilters
  /\ hpPagination = Null

\* the request of loadHistory for the filters f
historyCall(f) ==
  Call("getFetchHistory", "HistoryPage",
       [NoArg EXCEPT !.page = f.page, !.vendor = f.vendor, !.type = f.type,
                     !.status = f.status])

\* loadHistory up to its await, for the filters f of the render that calls it
loadHistory(f) ==
  /\ Len(calls) < MaxCalls
  /\ hpLoading' = TRUE
  /\ calls' = Append(calls, historyCall(f))

\* HistoryPage.handleFilterChange(key, value) and the [filters] effect
historyHandleFilterChange(key, value) ==
  /\ ~reloadPending
  /\ view = "fetchHistory"
  /\ ~(hpLoading /\ history = <<>>)
  /\ value \in HistoryFilterValues[key]
  /\ value # hpFilters[key]
  /\ hpFilters' = [hpFilters EXCEPT ![key] = value, !.page = 1]
  /\ loadHistory(hpFilters')
  /\ Quiet
  /\ UNCHANGED <<view, history, hpPagination>>
  /\ UNCHANGED <<browserVars, nonHistoryVars>>

\* HistoryPage.clearFilters (shown while a filter is set) and the effect
historyClearFilters ==
  /\ ~reloadPending
  /\ view = "fetchHistory"
  /\ ~(hpLoading /\ history = <<>>)
  /\ hpFilters.type # "" \/ hpFilters.vendor # "" \/ hpFilters.status # ""
  /\ hpFilters' = InitialHistoryFilters
  /\ loadHistory(hpFilters')
  /\ Quiet
  /\ UNCHANGED <<view, history, hpPagination>>
  /\ UNCHANGED <<browserVars, nonHistoryVars>>

\* HistoryPage.handlePageChange, from the Previous / Next buttons
historyHandlePageChange(newPage) ==
  /\ ~reloadPending
  /\ view = "fetchHistory"
  /\ ~(hpLoading /\ history = <<>>)
  /\ hpPagination # Null
  /\ hpPagination[1].total > HistoryLimit
  /\ \/ hpPagination[1].hasPrev /\ newPage = hpFilters.page - 1
     \/ hpPagination[1].hasNext /\ newPage = hpFilters.page + 1
  /\ newPage <= MaxPage
  /\ hpFilters' = [hpFilters EXCEPT !.page = newPage]
  /\ loadHistory(hpFilters')
  /\ Quiet
  /\ UNCHANGED <<view, history, hpPagination>>
  /\ UNCHANGED <<browserVars, nonHistoryVars>>

\* the Refresh button: loadHistory with the current filters
historyRefresh ==
  /\ ~reloadPending
  /\ view = "fetchHistory"
  /\ ~hpLoading
  /\ loadHistory(hpFilters)
  /\ Quiet
  /\ UNCHANGED <<view, history, hpFilters, hpPagination>>
  /\ UNCHANGED <<browserVars, nonHistoryVars>>

\* loadHistory after its await
loadHistorySettle(i, status, data) ==
  /\ ~reloadPending
  /\ view = "fetchHistory"
  /\ i \in DOMAIN calls
  /\ calls[i].op = "getFetchHistory"
  /\ calls' = Remove(calls, i)
  /\ IF status = 200
       THEN /\ IF calls[i].live
                 THEN /\ history' = data.history
                      /\ hpPagination' =
                           Some([total |-> data.total,
                                 hasNext |-> calls[i].arg.page * HistoryLimit < data.total,
                                 hasPrev |-> calls[i].arg.page > 1])
                 ELSE UNCHANGED <<history, hpPagination>>
            /\ UNCHANGED browserVars
       ELSE /\ UNCHANGED <<history, hpPagination>>
            /\ ResponseError(status)
  /\ hpLoading' = IF calls[i].live THEN FALSE ELSE hpLoading
  /\ alertMsg' = ""
  /\ Handled(calls[i], status = 200)
  /\ UNCHANGED <<view, hpFilters>>
  /\ UNCHANGED nonHistoryVars

\* the route leaves the history page and comes back
HistoryRemount ==
  /\ ~reloadPending
  /\ view = "fetchHistory"
  /\ Len(calls) < MaxCalls
  /\ history' = <<>>
  /\ hpLoading' = TRUE
  /\ hpFilters' = InitialHistoryFilters
  /\ hpPagination' = Null
  /\ calls' = Append(Orphan(calls, "HistoryPage"), historyCall(InitialHistoryFilters))
  /\ Quiet
  /\ UNCHANGED view
  /\ UNCHANGED <<browserVars, nonHistoryVars>>

-----------------------------------------------------------------------------
(* ListingHistoryPage (src/unnamed/part_000)                                 *)

\* listing operations as GET /api/list/history returns them
opSingle == [id |-> 1, operation_type |-> "single", vendor |-> "phoenix"]
opBulk == [id |-> 2, operation_type |-> "bulk", vendor |-> "phoenix"]

\* what the endpoint can answer: a page of operations, the total count and
\* the statistics
ListingPages ==
  {[history |-> <<opSingle, opBulk>>, total |-> 45, stats |-> [total_operations |-> 45]],
   [history |-> <<opBulk>>, total |-> 1, stats |-> [total_operations |-> 45]],
   [history |-> <<>>, total |-> 0, stats |-> [total_operations |-> 0]]}

\* the filter selects that are operated and the values chosen in them; the
\* operation type select is left at ''
ListingFilterValues == [vendor_filter |-> {"", "phoenix"}, limit |-> {20, 50}]

InitialListingFilters ==
  [page |-> 1, limit |-> 20, vendor_filter |-> "", operation_filter |-> ""]

\* useState initial values of ListingHistoryPage; stats starts as {}
FreshListing ==
  /\ lhHistory' = <<>>
  /\ lhStats' = Null
  /\ lhLoading' = TRUE
  /\ lhFilters' = InitialListingFilters
  /\ lhPagination' = InitialPagination

ListingIdle ==
  /\ lhHistory = <<>>
  /\ lhStats = Null
  /\ lhLoading = TRUE
  /\ lhFilters = InitialListingFilters
  /\ lhPagination = InitialPagination

\* the request of loadListingHistory for the filters f
listingCall(f) ==
  Call("getListingHistory", "ListingHistoryPage",
       [NoArg EXCEPT !.page = f.page, !.vendor = f.vendor_filter,
                     !.type = f.operation_filter, !.limit = f.limit])

\* loadListingHistory up to its await, for the filters f of the render that
\* calls it
loadListingHistory(f) ==
  /\ Len(calls) < MaxCalls
  /\ lhLoading' = TRUE
  /\ calls' = Append(calls, listingCall(f))

\* a handler that keeps the page
listingFiltersKeepPage(prev, key, value) == [prev EXCEPT ![key] = value]
\* the updater of ListingHistoryPage.handleFilterChange
listingFilters(prev, key, value) == [prev EXCEPT ![key] = value, !.page = 1]

\* ListingHistoryPage.handleFilterChange(key, value) and the [filters] effect
listingHandleFilterChange(key, value) ==
  /\ ~reloadPending
  /\ view = "listingHistory"
  /\ key \in DOMAIN ListingFilterValues
  /\ value \in ListingFilterValues[key]
  /\ value # lhFilters[key]
  /\ lhFilters' = listingFilters(lhFilters, key, value)
  /\ loadListingHistory(lhFilters')
  /\ Quiet
  /\ UNCHANGED <<view, lhHistory, lhStats, lhPagination>>
  /\ UNCHANGED <<browserVars, nonListingVars>>

\* the Clear Filters button and the effect; the updater returns a new object
\* in every case
listingClearFilters ==
  /\ ~reloadPending
  /\ view = "listingHistory"
  /\ lhFilters' = [lhFilters EXCEPT !.vendor_filter = "", !.operation_filter = "",
                                    !.page = 1]
  /\ loadListingHistory(lhFilters')
  /\ Quiet
  /\ UNCHANGED <<view, lhHistory, lhStats, lhPagination>>
  /\ UNCHANGED <<browserVars, nonListingVars>>

\* Math.ceil(pagination.total / filters.limit)
listingTotalPages == (lhPagination.total + lhFilters.limit - 1) \div lhFilters.limit

\* the pages the pagination controls of ListingHistoryPage lead to
ListingPageButtons ==
  IF ~lhLoading /\ lhPagination.total > 0
    THEN {n \in {(IF lhFilters.page - 2 > 1 THEN lhFilters.page - 2 ELSE 1) + i :
                   i \in 0..((IF listingTotalPages < 5 THEN listingTotalPages ELSE 5) - 1)} :
            n <= listingTotalPages}
           \cup (IF lhPagination.hasPrev THEN {lhFilters.page - 1} ELSE {})
           \cup (IF lhPagination.hasNext THEN {lhFilters.page + 1} ELSE {})
    ELSE {}

\* ListingHistoryPage.handlePageChange and the effect; a click on the button
\* of the current page sets a new filters object as well
listingHandlePageChange(newPage) ==
  /\ ~reloadPending
  /\ view = "listingHistory"
  /\ newPage \in ListingPageButtons
  /\ newPage <= MaxPage
  /\ lhFilters' = [lhFilters EXCEPT !.page = newPage]
  /\ loadListingHistory(lhFilters')
  /\ Quiet
  /\ UNCHANGED <<view, lhHistory, lhStats, lhPagination>>
  /\ UNCHANGED <<browserVars, nonListingVars>>

\* the Refresh button: loadListingHistory with the current filters
listingRefresh ==
  /\ ~reloadPending
  /\ view = "listingHistory"
  /\ ~lhLoading
  /\ loadListingHistory(lhFilters)
  /\ Quiet
  /\ UNCHANGED <<view, lhHistory, lhStats, lhFilters, lhPagination>>
  /\ UNCHANGED <<browserVars, nonListingVars>>

\* loadListingHistory after its await
loadListingHistorySettle(i, status, data) ==
  /\ ~reloadPending
  /\ view = "listingHistory"
  /\ i \in DOMAIN calls
  /\ calls[i].op = "getListingHistory"
  /\ calls' = Remove(calls, i)
  /\ IF status = 200
       THEN /\ IF calls[i].live
                 THEN /\ lhHistory' = data.history
                      /\ lhPagination' =
                           [total |-> data.total,
                            hasNext |-> calls[i].arg.page * calls[i].arg.limit < data.total,
                            hasPrev |-> calls[i].arg.page > 1]
                      /\ lhStats' = Some(data.stats)
                 ELSE UNCHANGED <<lhHistory, lhPagination, lhStats>>
            /\ UNCHANGED browserVars
       ELSE /\ UNCHANGED <<lhHistory, lhPagination, lhStats>>
            /\ ResponseError(status)
  /\ lhLoading' = IF calls[i].live THEN FALSE ELSE lhLoading
  /\ alertMsg' = ""
  /\ Handled(calls[i], status = 200)
  /\ UNCHANGED <<view, lhFilters>>
  /\ UNCHANGED nonListingVars

\* the route leaves the listing history page and comes back
ListingRemount ==
  /\ ~reloadPending
  /\ view = "listingHistory"
  /\ Len(calls) < MaxCalls
  /\ FreshListing
  /\ calls' = Append(Orphan(calls, "ListingHistoryPage"), listingCall(InitialListingFilters))
  /\ Quiet
  /\ UNCHANGED view
  /\ UNCHANGED <<browserVars, nonListingVars>>

-----------------------------------------------------------------------------
(* components/User/ProductCard.jsx and ProductRow.jsx: one card of a list    *)

\* the products a card is rendered for: with and without SKU, listed or not
CardProducts ==
  {[sku |-> s, listed_on_shopify |-> l] : s \in {<<>>, <<"A", "1">>}, l \in BOOLEAN}

\* the grid view renders ProductCard, the list view ProductRow
CardComponents == {"ProductCard", "ProductRow"}

\* the functions the shopifyAPI object of services/api.js has
ShopifyAPI == {"listProduct", "listMultipleProducts", "getListingStatus"}

\* the reset timers (setTimeout 3000) and requests of a card that are pending
\* at a time
MaxStatusResets == 3

\* useState initial values of ProductCard / ProductRow
FreshCard ==
  /\ listingLoading' = FALSE
  /\ listingStatus' = Null
  /\ showConfirmDialog' = FALSE
  /\ statusResets' = 0

\* no card is mounted
CardIdle ==
  /\ cardComponent = ""
  /\ cardProduct = Null
  /\ listingLoading = FALSE
  /\ listingStatus = Null
  /\ showConfirmDialog = FALSE
  /\ statusResets = 0
  /\ cardEvent = ""

\* a card mounted in a list, for one of the products
CardInit ==
  /\ view = "card"
  /\ calls = <<>>
  /\ cardComponent \in CardComponents
  /\ cardProduct \in {Some(p) : p \in CardProducts}
  /\ listingLoading = FALSE
  /\ listingStatus = Null
  /\ showConfirmDialog = FALSE
  /\ statusResets = 0
  /\ cardEvent = ""

\* a handler that never asks for confirmation
needsConfirmationNever(listed, forceRelist) == FALSE
\* isListedOnShopify && !forceRelist
needsConfirmation(listed, forceRelist) == listed /\ ~forceRelist

\* the member of shopifyAPI that handleListOnShopify calls
listFunction(forceRelist) ==
  IF forceRelist THEN "listProductWithForce" ELSE "listProduct"

\* handleListOnShopify(forceRelist) up to its first await; a call of a member
\* that shopifyAPI does not have throws a TypeError inside the try block, so
\* the catch and finally blocks run in the same step
handleListOnShopify(forceRelist) ==
  LET product == cardProduct[1] IN
  IF product.sku = <<>>
    THEN /\ alertMsg' = "Product SKU is required for listing"
         /\ UNCHANGED <<calls, listingLoading, listingStatus, showConfirmDialog,
                        statusResets>>
  ELSE IF needsConfirmation(product.listed_on_shopify, forceRelist)
    THEN /\ showConfirmDialog' = TRUE
         /\ alertMsg' = ""
         /\ UNCHANGED <<calls, listingLoading, listingStatus, statusResets>>
  ELSE IF listFunction(forceRelist) \notin ShopifyAPI
    THEN /\ showConfirmDialog' = FALSE
         /\ listingStatus' = Some("error")
         /\ alertMsg' = "Failed to list product: shopifyAPI."
                          \o listFunction(forceRelist) \o " is not a function"
         /\ listingLoading' = FALSE
         /\ statusResets' = statusResets + 1
         /\ UNCHANGED calls
    ELSE /\ showConfirmDialog' = FALSE
         /\ listingLoading' = TRUE
         /\ calls' = Append(calls, Call(listFunction(forceRelist), cardComponent,
                                        [NoArg EXCEPT !.skus = <<product.sku>>]))
         /\ alertMsg' = ""
         /\ UNCHANGED <<listingStatus, statusResets>>

\* what the card actions leave alone
nonCardVars == <<authVars, scrapeVars, dashboardVars, listVars, gapVars,
                 vendorHistoryVars, historyVars, listingVars, bar>>

\* the "List on Shopify" button: disabled while listingLoading or without SKU
listClick ==
  /\ ~reloadPending
  /\ view = "card"
  /\ ~listingLoading /\ cardProduct[1].sku # <<>>
  /\ Len(calls) + statusResets < MaxStatusResets
  /\ handleListOnShopify(FALSE)
  /\ cardEvent' = "list"
  /\ bulkClicked' = FALSE /\ response' = Null
  /\ UNCHANGED <<view, cardComponent, cardProduct>>
  /\ UNCHANGED <<browserVars, nonCardVars>>

\* handleConfirmRelist: the "Yes, Create New Listing" button of the dialog
handleConfirmRelist ==
  /\ ~reloadPending
  /\ view = "card"
  /\ showConfirmDialog
  /\ Len(calls) + statusResets < MaxStatusResets
  /\ handleListOnShopify(TRUE)
  /\ cardEvent' = "confirm"
  /\ bulkClicked' = FALSE /\ response' = Null
  /\ UNCHANGED <<view, cardComponent, cardProduct>>
  /\ UNCHANGED <<browserVars, nonCardVars>>

\* handleCancelRelist: the Cancel button of the dialog
handleCancelRelist ==
  /\ ~reloadPending
  /\ view = "card"
  /\ showConfirmDialog
  /\ showConfirmDialog' = FALSE
  /\ cardEvent' = "cancel"
  /\ Quiet
  /\ UNCHANGED <<view, calls, cardComponent, cardProduct, listingLoading, listingStatus, statusResets>>
  /\ UNCHANGED <<browserVars, nonCardVars>>

\* the answers of POST /api/list/<sku>: accepted, or already_listed in a
\* successful or in an error response, or a failure
ListOutcomes ==
  {[status |-> 200, already_listed |-> a] : a \in BOOLEAN}
    \cup {[status |-> 409, already_listed |-> TRUE]}
    \cup {[status |-> s, already_listed |-> FALSE] : s \in FailureStatuses}

\* handleListOnShopify after its await of call i, answered with r; the parent
\* list passes onSelectionChange, so a success reloads the page
listSettle(i, r) ==
  LET forceRelist == calls[i].op = "listProductWithForce" IN
  /\ ~reloadPending
  /\ view = "card"
  /\ i \in DOMAIN calls
  /\ calls[i].op \in {"listProduct", "listProductWithForce"}
  /\ calls' = Remove(calls, i)
  /\ IF r.status = 200
       THEN IF r.already_listed /\ ~forceRelist
              THEN /\ showConfirmDialog' = TRUE
                   /\ alertMsg' = ""
                   /\ UNCHANGED <<listingStatus, browserVars>>
              ELSE /\ listingStatus' = Some("success")
                   /\ alertMsg' = "Product has been successfully listed on Shopify!"
                   /\ reloadPending' = TRUE
                   /\ UNCHANGED <<showConfirmDialog, lsToken, lsUser, path>>
       ELSE /\ listingStatus' = Some("error")
            /\ IF r.already_listed
                 THEN showConfirmDialog' = TRUE /\ alertMsg' = ""
                 ELSE /\ alertMsg' = "Failed to list product: " \o apiErrorMessage(r.status)
                      /\ UNCHANGED showConfirmDialog
            /\ ResponseError(r.status)
  /\ listingLoading' = FALSE
  /\ statusResets' = statusResets + 1
  /\ cardEvent' = ""
  /\ Handled(calls[i], r.status = 200)
  /\ UNCHANGED <<view, cardComponent, cardProduct>>
  /\ UNCHANGED nonCardVars

\* a reset timer fires: setListingStatus(null)
statusResetFire ==
  /\ ~reloadPending
  /\ view = "card"
  /\ statusResets > 0
  /\ statusResets' = statusResets - 1
  /\ listingStatus' = Null
  /\ cardEvent' = ""
  /\ Quiet
  /\ UNCHANGED <<view, calls, cardComponent, cardProduct, listingLoading, showConfirmDialog>>
  /\ UNCHANGED <<browserVars, nonCardVars>>

\* the page load after window.location.reload() or a 401: timers and pending
\* calls are gone; after a reload the list is fetched again and the card is
\* fresh, the product may now be reported as listed
CardPageLoad ==
  /\ reloadPending
  /\ view = "card"
  /\ reloadPending' = FALSE
  /\ calls' = <<>>
  /\ FreshCard
  /\ cardEvent' = ""
  /\ Quiet
  /\ IF path = "/login"
       THEN view' = "login" /\ cardProduct' = Null /\ cardComponent' = ""
       ELSE /\ view' = view
            /\ cardComponent' = cardComponent
            /\ \E l \in {cardProduct[1].listed_on_shopify, TRUE} :
                 cardProduct' = Some([cardProduct[1] EXCEPT !.listed_on_shopify = l])
  /\ UNCHANGED <<lsToken, lsUser, path>>
  /\ UNCHANGED nonCardVars

NextCard ==
  \/ listClick
  \/ handleConfirmRelist
  \/ handleCancelRelist
  \/ \E i \in 1..MaxStatusResets, r \in ListOutcomes : listSettle(i, r)
  \/ statusResetFire
  \/ CardPageLoad

-----------------------------------------------------------------------------
(* The data views: one page component is mounted                            *)

\* the page load that follows a 401: every component and every pending call
\* is gone, the login page is shown
ViewsPageLoad ==
  /\ reloadPending
  /\ view \notin {"scrape", "card"}
  /\ reloadPending' = FALSE
  /\ view' = "login"
  /\ calls' = <<>>
  /\ products' = <<>>
  /\ udLoading' = TRUE
  /\ searchLoading' = FALSE
  /\ filters' = InitialFilters
  /\ pagination' = InitialPagination
  /\ FreshList
  /\ FreshGap
  /\ FreshVendorHistory
  /\ FreshHistory
  /\ FreshListing
  /\ Quiet
  /\ UNCHANGED <<lsToken, lsUser, path>>
  /\ UNCHANGED nonViewVars

\* no page component of the data views is mounted
ViewsIdle ==
  /\ calls = <<>>
  /\ alertMsg = ""
  /\ bulkClicked = FALSE
  /\ response = Null
  /\ DashboardIdle /\ ListIdle /\ GapIdle /\ VendorHistoryIdle /\ HistoryIdle
  /\ CardIdle /\ ListingIdle /\ bar = Null

\* UserDashboard mounted on the products page: both mount effects have run,
\* loadInitialData and loadProducts are waiting for the backend
ProductsInit ==
  /\ view = "products"
  /\ calls = <<Call("loadInitialData", "UserDashboard", [NoArg EXCEPT !.page = 1]),
               Call("loadProducts", "UserDashboard", productParams(InitialFilters))>>
  /\ products = <<>>
  /\ udLoading = TRUE
  /\ searchLoading = TRUE
  /\ filters = InitialFilters
  /\ pagination = InitialPagination
  /\ ListIdle /\ GapIdle /\ VendorHistoryIdle /\ HistoryIdle

\* GapAnalysis mounted: no vendor chosen, nothing requested
GapInit ==
  /\ view = "gap"
  /\ calls = <<>>
  /\ DashboardIdle /\ ListIdle /\ GapIdle /\ VendorHistoryIdle /\ HistoryIdle

\* VendorHistory mounted: the load effect found no vendor, the debounce
\* timer of the first render is pending
VendorHistoryInit ==
  /\ view = "vendorHistory"
  /\ calls = <<>>
  /\ vhVendor = ""
  /\ activeTab = "ALL"
  /\ vhProducts = <<>>
  /\ vhFilteredProducts = <<>>
  /\ vhLoading = FALSE
  /\ vhError = Null
  /\ vhFilters = InitialListFilters
  /\ vhPagination = InitialVendorPagination
  /\ searchTimeout = Some(loadClosure("", "ALL", 1))
  /\ DashboardIdle /\ ListIdle /\ GapIdle /\ HistoryIdle

\* HistoryPage mounted: the [filters] effect has called loadHistory
HistoryInit ==
  /\ view = "fetchHistory"
  /\ calls = <<historyCall(InitialHistoryFilters)>>
  /\ DashboardIdle /\ ListIdle /\ GapIdle /\ VendorHistoryIdle /\ HistoryIdle

\* ListingHistoryPage mounted: the [filters] effect has called
\* loadListingHistory
ListingInit ==
  /\ view = "listingHistory"
  /\ calls = <<listingCall(InitialListingFilters)>>
  /\ DashboardIdle /\ ListIdle /\ GapIdle /\ VendorHistoryIdle /\ HistoryIdle

\* a signed-in administrator, who may open every page
ViewsSession == Session(AdminUser, "fake-admin-token")

NextProducts ==
  \/ \E i \in 1..MaxCalls, pg \in ProductPages : loadInitialDataSettle(i, 200, pg)
  \/ \E i \in 1..MaxCalls, s \in FailureStatuses :
       loadInitialDataSettle(i, s, CHOOSE pg \in ProductPages : TRUE)
  \/ \E i \in 1..MaxCalls, pg \in ProductPages : loadProductsSettle(i, 200, pg)
  \/ \E i \in 1..MaxCalls, s \in FailureStatuses :
       loadProductsSettle(i, s, CHOOSE pg \in ProductPages : TRUE)
  \/ \E nf \in [{"search"} -> SearchTerms] \cup [{"category"} -> Categories]
             \cup [{"category", "search"} -> {<<>>}] : handleFilterChange(nf)
  \/ \E p \in 1..MaxPage : handlePageChange(p)
  \/ \E p \in Catalogue, b \in BOOLEAN : handleSelectionChange(p, b)
  \/ handleSelectAll
  \/ toggleSelectMode
  \/ handleBulkListOnShopify
  \/ \E i \in 1..MaxCalls, s \in {200} \cup FailureStatuses : bulkListSettle(i, s)
  \/ ProductListRemount

NextGap ==
  \/ \E v \in Vendors \cup {""} : gapHandleVendorChange(v)
  \/ \E i \in 1..MaxCalls, l \in ProductLists : loadDeltaDataSettle(i, 200, l)
  \/ \E i \in 1..MaxCalls, s \in FailureStatuses : loadDeltaDataSettle(i, s, <<>>)
  \/ \E nf \in [{"search"} -> SearchTerms] \cup [{"category"} -> Categories]
             \cup [{"category", "search"} -> {<<>>}] : gapHandleFilterChange(nf)
  \/ \E p \in Catalogue, b \in BOOLEAN : gapHandleSelectionChange(p, b)
  \/ gapHandleSelectAll
  \/ gapToggleSelectMode
  \/ gapHandleBulkListOnShopify
  \/ \E i \in 1..MaxCalls, s \in {200} \cup FailureStatuses : gapBulkListSettle(i, s)
  \/ GapRemount

NextVendorHistory ==
  \/ \E v \in Vendors \cup {""} : vendorHistoryHandleVendorChange(v)
  \/ \E t \in TabKeys : vendorHistoryHandleTabChange(t)
  \/ \E nf \in [{"search"} -> SearchTerms] \cup [{"category"} -> Categories]
             \cup [{"category", "search"} -> {<<>>}] : vendorHistoryHandleFilterChange(nf)
  \/ searchTimeoutFire
  \/ \E p \in 1..MaxPage : vendorHistoryHandlePageChange(p)
  \/ \E i \in 1..(MaxVendorHistoryCalls + 1), pg \in VendorHistoryPages :
       loadVendorHistorySettle(i, 200, Some(pg))
  \/ \E i \in 1..(MaxVendorHistoryCalls + 1), s \in VendorHistoryFailures :
       loadVendorHistorySettle(i, s, Null)
  \/ \E p \in Catalogue, b \in BOOLEAN : vendorHistoryHandleSelectionChange(p, b)
  \/ vendorHistoryHandleSelectAll
  \/ vendorHistoryToggleSelectMode
  \/ vendorHistoryHandleBulkListOnShopify
  \/ \E i \in 1..(MaxVendorHistoryCalls + 1), s \in {200} \cup FailureStatuses :
       vendorHistoryBulkListSettle(i, s)
  \/ VendorHistoryRemount

NextHistory ==
  \/ \E k \in DOMAIN HistoryFilterValues, v \in {"", "scrape", "error"} :
       historyHandleFilterChange(k, v)
  \/ historyClearFilters
  \/ \E p \in 1..MaxPage : historyHandlePageChange(p)
  \/ historyRefresh
  \/ \E i \in 1..MaxCalls, pg \in HistoryPages : loadHistorySettle(i, 200, pg)
  \/ \E i \in 1..MaxCalls, s \in FailureStatuses :
       loadHistorySettle(i, s, CHOOSE pg \in HistoryPages : TRUE)
  \/ HistoryRemount

NextListing ==
  \/ \E v \in ListingFilterValues.vendor_filter :
       listingHandleFilterChange("vendor_filter", v)
  \/ \E n \in ListingFilterValues.limit : listingHandleFilterChange("limit", n)
  \/ listingClearFilters
  \/ \E p \in 1..MaxPage : listingHandlePageChange(p)
  \/ listingRefresh
  \/ \E i \in 1..MaxCalls, pg \in ListingPages : loadListingHistorySettle(i, 200, pg)
  \/ \E i \in 1..MaxCalls, s \in FailureStatuses :
       loadListingHistorySettle(i, s, CHOOSE pg \in ListingPages : TRUE)
  \/ ListingRemount

-----------------------------------------------------------------------------
(* Specifications                                                           *)

InitScrape == ScrapeSession /\ ScrapeInit /\ view = "scrape" /\ ViewsIdle

SpecScrape == InitScrape /\ [][NextScrape]_vars

InitAuth == AuthInit /\ ScrapeInit /\ btnType = "scrape" /\ view = "login" /\ ViewsIdle

SpecAuth == InitAuth /\ [][NextAuth]_vars

\* the ghost variables of the data views at the start
ViewsStart ==
  /\ ViewsSession /\ ScrapeInit /\ btnType = "scrape"
  /\ alertMsg = "" /\ bulkClicked = FALSE /\ response = Null
  /\ CardIdle /\ ListingIdle /\ bar = Null

\* a ProductCard or ProductRow of a list
InitCard ==
  /\ ViewsSession /\ ScrapeInit /\ btnType = "scrape"
  /\ alertMsg = "" /\ bulkClicked = FALSE /\ response = Null
  /\ DashboardIdle /\ ListIdle /\ GapIdle /\ VendorHistoryIdle /\ HistoryIdle
  /\ ListingIdle /\ bar = Null
  /\ CardInit
SpecCard == InitCard /\ [][NextCard]_vars

\* the products page
InitProducts == ViewsStart /\ ProductsInit
NextProductsPage == NextProducts \/ ViewsPageLoad
SpecProducts == InitProducts /\ [][NextProductsPage]_vars

\* the pagination of ProductList for every total and page
InitBar ==
  /\ ViewsSession /\ ScrapeInit /\ btnType = "scrape"
  /\ alertMsg = "" /\ bulkClicked = FALSE /\ response = Null
  /\ CardIdle /\ ListingIdle
  /\ ListIdle /\ GapIdle /\ VendorHistoryIdle /\ HistoryIdle
  /\ BarInit
SpecBar == InitBar /\ [][NextBar]_vars

\* UserDashboard with its products page shown and a scrape that may complete
InitDashboard == ViewsStart /\ ProductsInit
NextDashboard == NextProducts \/ handleScrapeComplete \/ ViewsPageLoad
SpecDashboard == InitDashboard /\ [][NextDashboard]_vars

\* the pages with a selection: products, gap analysis, vendor history
InitSelection == ViewsStart /\ (ProductsInit \/ GapInit \/ VendorHistoryInit)
NextSelection == NextProducts \/ NextGap \/ NextVendorHistory \/ ViewsPageLoad
SpecSelection == InitSelection /\ [][NextSelection]_vars

\* the pages with server-side filters: products, fetch history, listing history
InitFilters == ViewsStart /\ (ProductsInit \/ HistoryInit \/ ListingInit)
NextFilters == NextProducts \/ NextHistory \/ NextListing \/ ViewsPageLoad
SpecFilters == InitFilters /\ [][NextFilters]_vars

\* the pages that filter the fetched list locally: gap analysis, vendor history
InitLocalFilters == ViewsStart /\ (GapInit \/ VendorHistoryInit)
NextLocalFilters == NextGap \/ NextVendorHistory \/ ViewsPageLoad
SpecLocalFilters == InitLocalFilters /\ [][NextLocalFilters]_vars

\* the pages with a bulk listing of the displayed list: products, gap analysis
InitLists == ViewsStart /\ (ProductsInit \/ GapInit)
NextLists == NextProducts \/ NextGap \/ ViewsPageLoad
SpecLists == InitLists /\ [][NextLists]_vars

\* the vendor history page
InitVendorHistory == ViewsStart /\ VendorHistoryInit
NextVendorHistoryPage == NextVendorHistory \/ ViewsPageLoad
SpecVendorHistory == InitVendorHistory /\ [][NextVendorHistoryPage]_vars

\* the data views: vendor history, gap analysis, fetch history
InitFetches == ViewsStart /\ (VendorHistoryInit \/ GapInit \/ HistoryInit)
NextFetches == NextVendorHistory \/ NextGap \/ NextHistory \/ ViewsPageLoad
SpecFetches == InitFetches /\ [][NextFetches]_vars

\* the two operations that send a request the user may have to repeat: a job
\* start on the Fetch Data page, a bulk listing on the products page
InitRetry == InitScrape \/ InitProducts
NextRetry == NextScrape \/ NextProducts \/ ViewsPageLoad
SpecRetry == InitRetry /\ [][NextRetry]_vars

-----------------------------------------------------------------------------
(* Session handling: C1 - C3                                               *)

apiSettled == apiState = "inflight" /\ apiState' = "settled"

\* C1: a backend response that fails with status 401 removes 'token' and
\* 'user' from localStorage, sets the location to /login and is still rejected
\* to the caller; a failure with any other status (or without a response) is
\* rejected too, leaves both entries unchanged and does not redirect.
C1_Interceptor401 ==
  [][apiSettled =>
       /\ (apiOutcome'.status # 200 => apiOutcome'.kind = "rejected")
       /\ (apiOutcome'.status = 401 =>
             lsToken' = Null /\ lsUser' = Null /\ path' = "/login")
       /\ (apiOutcome'.status \notin {200, 401} =>
             lsToken' = lsToken /\ lsUser' = lsUser /\ path' = path
               /\ ~reloadPending')]_vars

\* a 401 has just been intercepted for a signed-in user: the entries are gone,
\* the location is /login, the caller got the rejection
C1_Witness ==
  /\ apiState = "settled"
  /\ apiOutcome = [kind |-> "rejected", status |-> 401]
  /\ user # Null
  /\ lsToken = Null /\ lsUser = Null /\ path = "/login"

\* what the claim says PrivateRoute returns for a set of allowed roles
C2_Expected(roles) ==
  IF loading THEN "Loading"
  ELSE IF user = Null THEN "Navigate:/login"
  ELSE IF roles = {} \/ user[1].role \in roles THEN "children"
  ELSE IF user[1].role = "admin" THEN "Navigate:/admin"
  ELSE "Navigate:/dashboard"

\* C2: PrivateRoute renders its children only when loading is false, a user is
\* authenticated and roles is empty or holds the user's role; otherwise the
\* Loading view, a redirect to /login, or a redirect to /admin (role admin) or
\* /dashboard. A session with role 'user' never renders AdminDashboard.
C2_PrivateRoute ==
  /\ \A roles \in SUBSET {"user", "admin"} :
       PrivateRoute(roles, "children") = C2_Expected(roles)
  /\ (Rendered = "AdminDashboard" =>
        ~loading /\ user # Null /\ user[1].role = "admin")
  /\ (user # Null /\ user[1].role = "user" => Rendered # "AdminDashboard")

\* a signed-in user of role 'user' has opened /admin and is sent to /dashboard
C2_Witness ==
  /\ path = "/admin"
  /\ ~loading
  /\ user = Some(RegularUser)
  /\ Rendered = "Navigate:/dashboard"

loginSettled == loginState = "pending" /\ loginState' \in {"resolved", "rejected"}

\* C3: authAPI.login resolves only for (admin, admin123) and (user, user123);
\* the session's role follows from the matching pair and never from the form's
\* role field; on success 'token' and 'user' are written to localStorage; any
\* other credentials are rejected with 'Invalid credentials' and leave
\* localStorage and the context user unchanged.
C3_Login ==
  [][loginSettled =>
       LET c == loginCreds IN
         CASE c.username = "admin" /\ c.password = "admin123" ->
                /\ loginState' = "resolved"
                /\ user' # Null /\ user'[1].role = "admin"
                /\ lsToken' # Null
                /\ lsUser' # Null /\ JSONparse(lsUser'[1]) = user'[1]
           [] c.username = "user" /\ c.password = "user123" ->
                /\ loginState' = "resolved"
                /\ user' # Null /\ user'[1].role = "user"
                /\ lsToken' # Null
                /\ lsUser' # Null /\ JSONparse(lsUser'[1]) = user'[1]
           [] OTHER ->
                /\ loginState' = "rejected"
                /\ authError' = Some("Invalid credentials")
                /\ lsToken' = lsToken /\ lsUser' = lsUser /\ user' = user]_vars

\* the admin pair was submitted with the form's role left at 'user' and the
\* session is an admin session
C3_Witness ==
  /\ loginState = "resolved"
  /\ loginCreds = [username |-> "admin", password |-> "admin123", role |-> "user"]
  /\ user = Some(AdminUser)
  /\ lsToken # Null /\ lsUser # Null

-----------------------------------------------------------------------------
(* ScrapeButton: C7, C8                                                    *)

completionStep(j) == jobs[j].phase = "running" /\ jobs'[j].phase = "done"

\* C7: after the backend has acknowledged a start, the button completes when
\* its own timer fires, 60 s (shopify) or 120 s (scrape) after the
\* acknowledgement, with no further backend request; at that moment the
\* progress interval is cleared, onComplete has been invoked exactly once for
\* that start, and the last-scrape date is the completion time.
C7_ClientTimers ==
  [][\A j \in JobIds :
       /\ (completionStep(j) =>
             /\ now = jobs[j].ackAt + (IF btnType = "shopify" THEN 60000 ELSE 120000)
             /\ now' = now
             /\ sbRequests' = sbRequests
             /\ jobs'[j].iv = Off
             /\ jobs'[j].completes = 1
             /\ lsLastScrape'[jobs[j].vendor] = Some(toISOString(now))
             /\ (jobs[j].live =>
                   /\ scrapeStatus' = Some("completed")
                   /\ ~isScrapingActive'
                   /\ lastScrapeDate' = Some(now)))
       /\ (jobs'[j].completes # jobs[j].completes => completionStep(j))
       /\ (scrapeStatus' = Some("completed") /\ scrapeStatus # Some("completed") =>
             \E i \in JobIds : completionStep(i))]_vars

\* a shopify start acknowledged at time 0 has completed at 60 s on the button
\* that started it
C7_Witness ==
  /\ btnType = "shopify"
  /\ now = 60000
  /\ \E j \in JobIds : jobs[j].phase = "done" /\ jobs[j].completes = 1 /\ jobs[j].live
  /\ scrapeStatus = Some("completed")
  /\ lastScrapeDate = Some(60000)
  /\ ~isScrapingActive

JobsOf(v, phases) == {j \in JobIds : jobs[j].vendor = v /\ jobs[j].phase \in phases}

\* C8: the '<type>_<vendor>_status' entry is 'starting' from the click until
\* the start request settles, 'running' from a successful start until the
\* completion, absent after a failed start or a completion; the
\* '<type>_<vendor>_lastScrape' entry is written only at a completion.
C8_StatusEntry ==
  \A v \in Vendors :
    /\ (JobsOf(v, {"inflight"}) # {} => lsStatus[v] = Some("starting"))
    /\ (JobsOf(v, {"running"}) # {} => lsStatus[v] = Some("running"))
    /\ (JobsOf(v, {"inflight", "running", "dropped"}) = {}
          /\ JobsOf(v, {"failed", "done"}) # {} => lsStatus[v] = Null)
    /\ (lsLastScrape[v] # Null => JobsOf(v, {"done"}) # {})

-----------------------------------------------------------------------------
(* Data views: C4, C5                                                      *)

\* the step ran the continuation of a failed request op of a mounted component
failedLoad(op) ==
  response' # Null /\ response'[1].op = op /\ response'[1].live /\ ~response'[1].ok

\* C4 as stated: in every data view (vendor history, gap analysis, fetch
\* history) a fetch that fails leaves the list of the previous successful
\* fetch in place instead of clearing or replacing it.
C4_FailedFetchKeepsList ==
  [][/\ (failedLoad("getVendorHistory") => vhProducts' = vhProducts)
     /\ (failedLoad("getDelta") => deltaData' = deltaData)
     /\ (failedLoad("getFetchHistory") => history' = history)]_vars

\* C4, amended: a failed fetch leaves the list in place in the fetch history
\* view; in vendor history it empties the list; in gap analysis the list is
\* emptied when a fetch starts (it is empty while the view is loading) and a
\* failed fetch does not change it.
C4_FailedFetch ==
  [][/\ (failedLoad("getFetchHistory") => history' = history)
     /\ (failedLoad("getVendorHistory") =>
           vhProducts' = <<>> /\ vhFilteredProducts' = <<>>)
     /\ (failedLoad("getDelta") => deltaData' = deltaData)
     /\ (gaLoading' => deltaData' = Null)]_vars

\* a vendor-history load has just failed after an earlier one had returned
\* products: the list is empty, the total of the earlier load is still there
C4_Witness ==
  /\ view = "vendorHistory"
  /\ response = Some([op |-> "getVendorHistory", live |-> TRUE, ok |-> FALSE])
  /\ vhProducts = <<>>
  /\ vhPagination.total > 0

\* C5: once a failed vendor-history load has finished, the error state holds
\* the 'Failed to load vendor history: ...' message, so the banner is rendered.
C5_ErrorBanner ==
  [][failedLoad("getVendorHistory") =>
       vhError' \in {Some("Failed to load vendor history: " \o vendorHistoryErrorMessage(s)) :
                       s \in VendorHistoryFailures}]_vars

-----------------------------------------------------------------------------
(* Requests: C6, C9, C10                                                   *)

\* the bulk-listing requests in flight
BulkCalls(cs) == Cardinality({i \in DOMAIN cs : cs[i].op = "listMultipleProducts"})

\* C6: the client never retries. A step sends a job-start request only when it
\* is a click on the ScrapeButton, and then one; a step sends a bulk-listing
\* request only when it is a click on the bulk button, and then at most one;
\* the step that handles the answer to a bulk listing, failed or not, sends
\* none.
C6_NoRetry ==
  [][/\ \/ sbRequests' = sbRequests
        \/ sbClicks' = sbClicks + 1 /\ sbRequests' = sbRequests + 1
     /\ BulkCalls(calls') <= BulkCalls(calls) + (IF bulkClicked' THEN 1 ELSE 0)
     /\ (response' # Null /\ response'[1].op = "listMultipleProducts" =>
           BulkCalls(calls') = BulkCalls(calls) - 1)]_vars

\* a bulk listing of ProductList has just failed and no bulk-listing request
\* is in flight
C6_Witness ==
  /\ view = "products"
  /\ response = Some([op |-> "listMultipleProducts", live |-> TRUE, ok |-> FALSE])
  /\ BulkCalls(calls) = 0
  /\ selectedProducts # {}

\* the list a bulk button works on: ProductList shows the products prop,
\* GapAnalysis its filtered products
C9_Displayed == IF view = "products" THEN products ELSE gaFilteredProducts

\* the SKUs the claim expects in the request
C9_Skus ==
  LET chosen == SelectSeq(C9_Displayed, LAMBDA p :
                  (IF p.id # 0 THEN <<"id", p.id>> ELSE <<"sku", p.sku>>) \in selectedProducts
                    /\ p.sku # <<>>)
  IN [i \in 1..Len(chosen) |-> chosen[i].sku]

\* C9: a bulk listing sends one request whose SKU list is exactly the SKUs of
\* the displayed products whose key (id, else sku) is in the selection set and
\* whose sku is non-empty; when there is no such product an alert is raised
\* and no request is sent.
C9_BulkRequest ==
  [][bulkClicked' /\ view \in {"products", "gap"} =>
       IF C9_Skus # <<>>
         THEN /\ Len(calls') = Len(calls) + 1
              /\ SubSeq(calls', 1, Len(calls)) = calls
              /\ calls'[Len(calls')].op = "listMultipleProducts"
              /\ calls'[Len(calls')].arg.skus = C9_Skus
         ELSE /\ calls' = calls
              /\ alertMsg' \in {"Please select at least one product to list",
                                "Selected products must have SKUs to be listed"}]_vars

\* the bulk button of GapAnalysis has just been clicked with a product without
\* SKU among the selected ones: the request holds fewer SKUs than were selected
C9_Witness ==
  /\ view = "gap"
  /\ bulkClicked
  /\ calls # <<>>
  /\ calls[Len(calls)].op = "listMultipleProducts"
  /\ calls[Len(calls)].arg.skus # <<>>
  /\ Len(calls[Len(calls)].arg.skus) < Cardinality(selectedProducts)

\* C10: when the bulk-listing request of ProductList succeeds the selection
\* set is emptied and select mode is switched off; when it fails an alert is
\* raised and the selection set and select mode are left unchanged; in both
\* cases bulkListingLoading is false once the request has settled.
C10_BulkOutcome ==
  [][response' # Null /\ response'[1].op = "listMultipleProducts" /\ response'[1].live =>
       /\ bulkListingLoading' = FALSE
       /\ IF response'[1].ok
            THEN selectedProducts' = {} /\ selectMode' = FALSE
            ELSE /\ alertMsg' \in {"Failed to list products: " \o apiErrorMessage(s) :
                                     s \in FailureStatuses}
                 /\ selectedProducts' = selectedProducts
                 /\ selectMode' = selectMode]_vars

\* a bulk listing of ProductList has just succeeded: nothing is selected,
\* select mode is off, the button is no longer loading
C10_Witness ==
  /\ view = "products"
  /\ response = Some([op |-> "listMultipleProducts", live |-> TRUE, ok |-> TRUE])
  /\ products # <<>>
  /\ selectedProducts = {} /\ ~selectMode /\ ~bulkListingLoading

-----------------------------------------------------------------------------
(* The listing button of a card (ProductCard.jsx, ProductRow.jsx)            *)

\* a listing request has been sent in the step
listingSent == Len(calls') > Len(calls)

\* C11: a card sends a listing request only for a product with a SKU and, when
\* the product's listed_on_shopify flag is true, only in a click of the
\* dialog's confirm button; a click of the list button of such a product opens
\* the dialog and sends nothing, and Cancel closes the dialog and sends nothing.
C11_ConfirmFirst ==
  [][view = "card" /\ cardProduct # Null
       => LET product == cardProduct[1] IN
          /\ listingSent
               => /\ product.sku # <<>>
                  /\ product.listed_on_shopify => cardEvent' = "confirm"
          /\ cardEvent' = "list" /\ product.listed_on_shopify
               => showConfirmDialog' /\ calls' = calls
          /\ cardEvent' = "cancel" => ~showConfirmDialog' /\ calls' = calls]_vars

\* the list button of a listed product has been clicked: the dialog is open
\* and nothing is in flight
C11_Witness ==
  /\ view = "card" /\ cardEvent = "list"
  /\ cardProduct # Null /\ cardProduct[1].listed_on_shopify
  /\ showConfirmDialog /\ calls = <<>>

\* C12: a click of 'Yes, Create New Listing' sends a forced listing request
\* for the SKU of the card's product.
C12_ConfirmSendsForced ==
  [][cardEvent' = "confirm"
       => \E i \in DOMAIN calls' :
            /\ calls'[i].op = "listProductWithForce"
            /\ calls'[i].arg.skus = <<cardProduct[1].sku>>]_vars

-----------------------------------------------------------------------------
(* Filter and page handlers of UserDashboard, HistoryPage, ListingHistoryPage *)

\* the filters next are the filters prev with the fields of change replaced,
\* on page 1
changedOnPageOne(prev, next, change) ==
  /\ next.page = 1
  /\ DOMAIN next = DOMAIN prev
  /\ \A k \in DOMAIN prev \ {"page"} :
       next[k] = IF k \in DOMAIN change THEN change[k] ELSE prev[k]

\* the filters next are the filters prev on page newPage
onlyPage(prev, next, newPage) ==
  /\ next.page = newPage
  /\ DOMAIN next = DOMAIN prev
  /\ \A k \in DOMAIN prev \ {"page"} : next[k] = prev[k]

\* C13: in UserDashboard, HistoryPage and ListingHistoryPage a step of
\* handleFilterChange leaves the filters on page 1 with the changed fields
\* replaced and every other field kept, and a step of handlePageChange changes
\* the page and no other field (a step that leaves the filters as they were
\* trivially does).
C13_FilterFrame ==
  [][/\ view = "products" /\ filters' # filters
          => /\ \A nf \in [{"search"} -> SearchTerms] \cup [{"category"} -> Categories]
                            \cup [{"category", "search"} -> {<<>>}] :
                  handleFilterChange(nf) => changedOnPageOne(filters, filters', nf)
             /\ \A p \in 1..MaxPage :
                  handlePageChange(p) => onlyPage(filters, filters', p)
     /\ view = "fetchHistory" /\ hpFilters' # hpFilters
          => /\ \A k \in DOMAIN HistoryFilterValues : \A v \in HistoryFilterValues[k] :
                  historyHandleFilterChange(k, v)
                    => changedOnPageOne(hpFilters, hpFilters', [x \in {k} |-> v])
             /\ \A p \in 1..MaxPage :
                  historyHandlePageChange(p) => onlyPage(hpFilters, hpFilters', p)
     /\ view = "listingHistory" /\ lhFilters' # lhFilters
          => /\ \A k \in DOMAIN ListingFilterValues : \A v \in ListingFilterValues[k] :
                  listingHandleFilterChange(k, v)
                    => changedOnPageOne(lhFilters, lhFilters', [x \in {k} |-> v])
             /\ \A p \in 1..MaxPage :
                  listingHandlePageChange(p) => onlyPage(lhFilters, lhFilters', p)]_vars

\* the vendor filter of the listing history has been changed on a later page
\* (the pagination shown is still that of the later page): the filters are on
\* page 1 with the page size kept, and page 1 is requested
C13_Witness ==
  /\ view = "listingHistory"
  /\ lhPagination.hasPrev
  /\ lhFilters = [InitialListingFilters EXCEPT !.vendor_filter = "phoenix"]
  /\ calls # <<>>
  /\ calls[Len(calls)].arg.page = 1 /\ calls[Len(calls)].arg.vendor = "phoenix"

-----------------------------------------------------------------------------
(* The product requests of UserDashboard                                     *)

\* the positions of the pending calls of the given operations
CallsOf(cs, ops) == {i \in DOMAIN cs : cs[i].op \in ops}

\* C14: on the products page at most one request of loadProducts is in
\* flight, and searchLoading is true exactly while one is.
C14_SingleFlight ==
  view = "products"
    => /\ Cardinality(CallsOf(calls, {"loadProducts"})) <= 1
       /\ searchLoading <=> CallsOf(calls, {"loadProducts"}) # {}

\* the filters were cleared while a search was in flight: the request of the
\* search is the only one
C14_Witness ==
  /\ view = "products" /\ searchLoading
  /\ filters.search = <<>>
  /\ \E i \in DOMAIN calls : calls[i].op = "loadProducts" /\ calls[i].arg.search # <<>>

\* C15: when a response to a product request is displayed and no product
\* request remains in flight, the request was made with the current filters.
C15_ShownForFilters ==
  [][(/\ view = "products"
      /\ response' # Null
      /\ response'[1].op \in {"loadProducts", "loadInitialData"} /\ response'[1].ok
      /\ CallsOf(calls', {"loadProducts", "loadInitialData"}) = {})
       => \E i \in DOMAIN calls :
            /\ calls' = Remove(calls, i)
            /\ calls[i].op = response'[1].op
            /\ calls[i].arg = productParams(filters')]_vars

\* C16: in HistoryPage and ListingHistoryPage, when a response to a history
\* request is displayed and no history request remains in flight, the request
\* was made with the current filters.
C16_LatestFilters ==
  [][/\ (/\ view = "fetchHistory"
         /\ response' # Null /\ response'[1].op = "getFetchHistory"
         /\ response'[1].live /\ response'[1].ok
         /\ CallsOf(calls', {"getFetchHistory"}) = {})
          => \E i \in DOMAIN calls :
               calls' = Remove(calls, i) /\ calls[i] = historyCall(hpFilters')
     /\ (/\ view = "listingHistory"
         /\ response' # Null /\ response'[1].op = "getListingHistory"
         /\ response'[1].live /\ response'[1].ok
         /\ CallsOf(calls', {"getListingHistory"}) = {})
          => \E i \in DOMAIN calls :
               calls' = Remove(calls, i) /\ calls[i] = listingCall(lhFilters')]_vars

-----------------------------------------------------------------------------
(* The selection of ProductList, GapAnalysis and VendorHistory              *)

\* the keys of the products of a list
keysOf(list) == {productKey(list[i]) : i \in DOMAIN list}

\* C17: in ProductList, GapAnalysis and VendorHistory every key in the
\* selection set is the key of a product of the displayed list.
C17_SelectionDisplayed ==
  /\ view = "products" => selectedProducts \subseteq keysOf(products)
  /\ view = "gap" => selectedProducts \subseteq keysOf(gaFilteredProducts)
  /\ view = "vendorHistory" => selectedProducts \subseteq keysOf(vhFilteredProducts)

\* C18: in ProductList, GapAnalysis and VendorHistory the selection set is
\* empty whenever select mode is off.
C18_SelectModeOff ==
  view \in {"products", "gap", "vendorHistory"} /\ ~selectMode => selectedProducts = {}

\* select mode has been left while a bulk listing of selected products was in
\* flight: the selection is empty
C18_Witness ==
  /\ view \in {"products", "gap", "vendorHistory"}
  /\ bulkListingLoading /\ ~selectMode /\ selectedProducts = {}

-----------------------------------------------------------------------------
(* The pagination of ProductList                                             *)

\* C19: with totalPages = ceil(total / 12) and 1 <= currentPage <= totalPages
\* the bar of ProductList shows min(5, totalPages) consecutive page numbers
\* within 1..totalPages, the current page among them, and startIndex =
\* (currentPage - 1) * 12 + 1 <= endIndex = min(currentPage * 12, total).
C19_PaginationMath ==
  bar # Null /\ 1 <= filters.page /\ filters.page <= totalPages
    => LET numbers == bar[1].numbers
           currentPage == filters.page
           total == pagination.total
       IN /\ totalPages * 12 >= total /\ (totalPages - 1) * 12 < total
          /\ Len(numbers) = IF totalPages < 5 THEN totalPages ELSE 5
          /\ \A k \in 1..(Len(numbers) - 1) : numbers[k + 1] = numbers[k] + 1
          /\ \A k \in DOMAIN numbers : numbers[k] \in 1..totalPages
          /\ \E k \in DOMAIN numbers : numbers[k] = currentPage
          /\ bar[1].startIndex = (currentPage - 1) * 12 + 1
          /\ bar[1].startIndex <= bar[1].endIndex
          /\ bar[1].endIndex = IF currentPage * 12 < total THEN currentPage * 12 ELSE total

\* the bar of page 6 of 7: the window ends at the last page
C19_Witness ==
  /\ bar # Null
  /\ totalPages = 7 /\ filters.page = 6
  /\ bar[1].numbers = <<3, 4, 5, 6, 7>>
  /\ bar[1].startIndex = 61 /\ bar[1].endIndex = 72

-----------------------------------------------------------------------------
(* The debounced search of VendorHistory                                     *)

\* C20: when the debounce timer of a search change made with a vendor selected
\* fires, exactly one vendor-history request is issued, and it asks for page 1.
C20_DebounceOneRequest ==
  [][searchTimeoutFire /\ searchTimeout[1].vendor # ""
       => /\ Len(calls') = Len(calls) + 1
          /\ calls'[Len(calls')].op = "getVendorHistory"
          /\ calls'[Len(calls')].arg.page = 1]_vars

-----------------------------------------------------------------------------
(* Local list filtering: C21                                                *)

\* the text t occurs in the text s when upper and lower case are not told apart
containsIgnoringCase(s, t) ==
  \E k \in 0..(Len(s) - Len(t)) :
    \A j \in 1..Len(t) : lowerChar(s[k + j]) = lowerChar(t[j])

\* the product p passes the filters f, the search looking at the title, the
\* sku and the field third
passesFilters(p, f, third) ==
  /\ f.category # <<>> => p.category = f.category
  /\ f.search # <<>> => \E field \in {p.title, p.sku, p[third]} :
                          containsIgnoringCase(field, f.search)

\* the sub-list, in the original order, of the products of list that pass
RECURSIVE subList(_, _, _)
subList(list, f, third) ==
  IF list = <<>> THEN <<>>
  ELSE (IF passesFilters(Head(list), f, third) THEN <<Head(list)>> ELSE <<>>)
         \o subList(Tail(list), f, third)

\* the products GapAnalysis has fetched: none before the first response
gapFetched == IF deltaData = Null THEN <<>> ELSE deltaData[1]

\* C21: in VendorHistory and GapAnalysis the filtered list is the sub-list,
\* in the original order, of the fetched products whose category is the
\* selected one (when one is selected) and whose title, sku or third field
\* (category in VendorHistory, manufacturer in GapAnalysis) contains the
\* search text (when there is one) whatever the case; with both filters
\* empty it is the fetched list
C21_LocalFilter ==
  /\ view = "vendorHistory" =>
       /\ vhFilteredProducts = subList(vhProducts, vhFilters, "category")
       /\ (vhFilters = InitialListFilters => vhFilteredProducts = vhProducts)
  /\ view = "gap" =>
       /\ gaFilteredProducts = subList(gapFetched, gaFilters, "manufacturer")
       /\ (gaFilters = InitialListFilters => gaFilteredProducts = gapFetched)

\* a search in GapAnalysis has matched a sku in capitals and a manufacturer,
\* and has dropped the product in between
C21_Witness ==
  /\ view = "gap"
  /\ gaFilters.search = <<"a">>
  /\ gapFetched = <<pTap, pSink, pBath>>
  /\ gaFilteredProducts = <<pTap, pBath>>

=============================================================================
